---- MODULE Spec2Model ----
(***************************************************************************)
(* Model of the TaxWise front end.  The first and largest part is the      *)
(* RegimeSimulator component (src/unnamed/part_004), the income-tax regime *)
(* comparison; after it come the AI co-pilot chat (src/unnamed/part_001),  *)
(* the onboarding wizard (src/frontend/app/onboarding/page.tsx), the       *)
(* notifications page (src/unnamed/part_003), the CIBIL scenario simulator *)
(* (src/frontend/components/credit-hub/cibil-scenario-simulator.tsx) and   *)
(* the API layer (src/frontend/lib/api.ts).  Each component has its own    *)
(* variables, actions and specification; the actions of one component      *)
(* leave the variables of the others alone.                                *)
(*                                                                         *)
(* RegimeSimulator keeps one piece of state, the TaxScenario, changed by   *)
(* the form's onChange handlers and the income preset buttons.  Every      *)
(* render recomputes calculateTax for both regimes, regimeData,            *)
(* recommendedRegime and totalSavings from that state; they are operators  *)
(* over the state.  CalcSpec looks inside one render: the two calls of     *)
(* calculateTax run statement by statement, each on its own locals.        *)
(*                                                                         *)
(* Numbers.  The code computes in IEEE doubles.  All inputs are integers   *)
(* (Number.parseInt), so every intermediate value is an exact fraction     *)
(* with a small fixed denominator, and the model keeps each one as an      *)
(* integer count of that denominator:                                      *)
(*   rupees          scenario fields, deductions.section80C / section80D / *)
(*                   standardDeduction / other, taxLiability and the       *)
(*                   returned (rounded) taxableIncome, savings             *)
(*   1/2 rupee       deductions.hra (income * 0.5), the running            *)
(*                   taxableIncome before Math.round, taxableInThisSlab    *)
(*   1/200 rupee     taxInThisSlab, tax, taxBreakdown[i].tax               *)
(*                   (a half-rupee amount times a rate in whole percent)   *)
(*   1/5000 rupee    cess (tax * 0.04)                                     *)
(*   1/2500 rupee    totalTax (tax + cess)                                 *)
(* Slab rates are kept in whole percent (0.05 is 5).  effectiveRate is a   *)
(* fraction in lowest terms, or NaN / Infinity when income is 0.           *)
(***************************************************************************)
EXTENDS Integers, Sequences, FiniteSets, Bags

VARIABLES
  \* RegimeSimulator
  scenario,            \* useState<TaxScenario>
  calc,                \* the locals of the two calculateTax calls of a render
  \* AICopilotPage
  messages,            \* useState<Message[]>
  inputValue,          \* useState("")
  isTyping,            \* useState(false)
  pendingResponses,    \* handleSendMessage calls waiting on their 1500 ms timer
  \* OnboardingPage
  currentStep,         \* useState(1)
  data,                \* useState<OnboardingData>
  isLoading,           \* useState(false)
  pendingCompletions,  \* handleComplete calls waiting on their 2000 ms timer
  location,            \* window.location.href
  \* NotificationsPage
  notifications,       \* useState<Notification[]>
  \* CibilScenarioSimulator
  selectedAction,      \* useState("")
  paymentAmount,       \* useState([50000])
  newCreditLimit,      \* useState([200000])
  loanAmount,          \* useState([500000])
  results,             \* useState<ScenarioResult[]>
  \* api.ts
  globalAuthErrorHandler,  \* the module-level handler
  inFlight,                \* the bag of API calls waiting for fetch to resolve
  readingBody,             \* the bag of API calls waiting for response.json()
  lastCall                 \* what the latest API call to end did and how it ended

simulatorVars == <<scenario>>

calcVars == <<calc>>

chatVars == <<messages, inputValue, isTyping, pendingResponses>>

onboardingVars == <<currentStep, data, isLoading, pendingCompletions, location>>

notificationVars == <<notifications>>

cibilVars == <<selectedAction, paymentAmount, newCreditLimit, loanAmount, results>>

apiVars == <<globalAuthErrorHandler, inFlight, readingBody, lastCall>>

vars ==
  <<simulatorVars, calcVars, chatVars, onboardingVars, notificationVars, cibilVars,
    apiVars>>

\* What each component's handlers cannot reach: the state of the other components.
outsideSimulator ==
  <<calcVars, chatVars, onboardingVars, notificationVars, cibilVars, apiVars>>

outsideCalc ==
  <<chatVars, onboardingVars, notificationVars, cibilVars, apiVars>>

outsideChat ==
  <<simulatorVars, calcVars, onboardingVars, notificationVars, cibilVars, apiVars>>

outsideOnboarding ==
  <<simulatorVars, calcVars, chatVars, notificationVars, cibilVars, apiVars>>

outsideNotifications ==
  <<simulatorVars, calcVars, chatVars, onboardingVars, cibilVars, apiVars>>

outsideCibil ==
  <<simulatorVars, calcVars, chatVars, onboardingVars, notificationVars, apiVars>>

outsideApi ==
  <<simulatorVars, calcVars, chatVars, onboardingVars, notificationVars, cibilVars>>

(* ------------------------------ Math ---------------------------------- *)

MathMin(a, b) == IF a <= b THEN a ELSE b

MathMax(a, b) == IF a >= b THEN a ELSE b

MathAbs(a) == IF a < 0 THEN -a ELSE a

\* Math.round of the fraction n / d (d > 0 and even): the nearest integer,
\* a tie going towards +Infinity.
MathRound(n, d) == (n + d \div 2) \div d

RECURSIVE GCD(_, _)
GCD(a, b) == IF b = 0 THEN a ELSE GCD(b, a % b)

\* Number.POSITIVE_INFINITY, the upper bound of each table's last slab.
POSITIVE_INFINITY == 2147483647

(* ------------------- text of a number input, parseInt ------------------ *)

Digits == <<"0", "1", "2", "3", "4", "5", "6", "7", "8", "9">>

IsDigit(c) == \E i \in 1..10 : Digits[i] = c

DigitVal(c) == (CHOOSE i \in 1..10 : Digits[i] = c) - 1

\* The value the digits at the front of text s denote, continuing from acc;
\* parsing stops at the first character that is not a digit.
RECURSIVE parseDigits(_, _)
parseDigits(s, acc) ==
  IF s = <<>> \/ ~IsDigit(Head(s)) THEN acc
  ELSE parseDigits(Tail(s), 10 * acc + DigitVal(Head(s)))

\* Number.parseInt(s): an optional sign, then the leading decimal digits;
\* NaN when no digit follows the sign.
parseInt(s) ==
  LET neg  == s # <<>> /\ Head(s) = "-"
      body == IF s # <<>> /\ Head(s) \in {"-", "+"} THEN Tail(s) ELSE s
  IN  IF body = <<>> \/ ~IsDigit(Head(body))
      THEN [nan |-> TRUE, value |-> 0]
      ELSE [nan |-> FALSE,
            value |-> IF neg THEN -parseDigits(body, 0) ELSE parseDigits(body, 0)]

\* Number.parseInt(e.target.value) || 0 : NaN and 0 are falsy.
parseIntOrZero(s) ==
  LET p == parseInt(s) IN IF p.nan \/ p.value = 0 THEN 0 ELSE p.value

\* The decimal text of a non-negative integer, as the number input holds it.
RECURSIVE natText(_)
natText(n) ==
  IF n < 10 THEN <<Digits[n + 1]>>
  ELSE Append(natText(n \div 10), Digits[(n % 10) + 1])

numberText(n) == IF n < 0 THEN <<"-">> \o natText(-n) ELSE natText(n)

(* ----------------------------- calculateTax ---------------------------- *)

\* newRegimeSlabs with the 10 lakh - 12 lakh slab taxed at 20% instead of 15%.
newRegimeSlabs_wrongRate ==
  << [min |-> 0,       max |-> 300000,  rate |-> 0],
     [min |-> 300000,  max |-> 700000,  rate |-> 5],
     [min |-> 700000,  max |-> 1000000, rate |-> 10],
     [min |-> 1000000, max |-> 1200000, rate |-> 20],
     [min |-> 1200000, max |-> 1500000, rate |-> 20],
     [min |-> 1500000, max |-> POSITIVE_INFINITY, rate |-> 30] >>

\* New regime slabs (FY 2024-25); rate in percent.
newRegimeSlabs ==
  << [min |-> 0,       max |-> 300000,  rate |-> 0],
     [min |-> 300000,  max |-> 700000,  rate |-> 5],
     [min |-> 700000,  max |-> 1000000, rate |-> 10],
     [min |-> 1000000, max |-> 1200000, rate |-> 15],
     [min |-> 1200000, max |-> 1500000, rate |-> 20],
     [min |-> 1500000, max |-> POSITIVE_INFINITY, rate |-> 30] >>

\* Old regime slabs; rate in percent.
oldRegimeSlabs ==
  << [min |-> 0,       max |-> 250000,  rate |-> 0],
     [min |-> 250000,  max |-> 500000,  rate |-> 5],
     [min |-> 500000,  max |-> 1000000, rate |-> 20],
     [min |-> 1000000, max |-> POSITIVE_INFINITY, rate |-> 30] >>

slabsOf(isNewRegime) == IF isNewRegime THEN newRegimeSlabs ELSE oldRegimeSlabs

\* deductionBreakdown with the section 80C and 80D amounts taken as entered.
deductionBreakdown_uncapped(income, deductions, isNewRegime) ==
  IF isNewRegime
  THEN [section80C |-> 0, section80D |-> 0, hra |-> 0,
        standardDeduction |-> 75000, other |-> 0]
  ELSE [section80C |-> deductions.section80C,
        section80D |-> deductions.section80D,
        hra |-> MathMin(2 * deductions.hra, income),
        standardDeduction |-> 50000,
        other |-> deductions.homeLoanInterest + deductions.otherDeductions]

\* deductionBreakdown with the HRA capped at the whole income, not half of it.
deductionBreakdown_hraFullIncome(income, deductions, isNewRegime) ==
  IF isNewRegime
  THEN [section80C |-> 0, section80D |-> 0, hra |-> 0,
        standardDeduction |-> 75000, other |-> 0]
  ELSE [section80C |-> MathMin(deductions.section80C, 150000),
        section80D |-> MathMin(deductions.section80D, 25000),
        hra |-> MathMin(2 * deductions.hra, 2 * income),
        standardDeduction |-> 50000,
        other |-> deductions.homeLoanInterest + deductions.otherDeductions]

\* deductionBreakdown with the old regime's standard deduction in both regimes.
deductionBreakdown_sameStandard(income, deductions, isNewRegime) ==
  IF isNewRegime
  THEN [section80C |-> 0, section80D |-> 0, hra |-> 0,
        standardDeduction |-> 50000, other |-> 0]
  ELSE [section80C |-> MathMin(deductions.section80C, 150000),
        section80D |-> MathMin(deductions.section80D, 25000),
        hra |-> MathMin(2 * deductions.hra, income),
        standardDeduction |-> 50000,
        other |-> deductions.homeLoanInterest + deductions.otherDeductions]

\* deductionBreakdown with the home loan interest capped at 200000.
deductionBreakdown_homeLoanCapped(income, deductions, isNewRegime) ==
  IF isNewRegime
  THEN [section80C |-> 0, section80D |-> 0, hra |-> 0,
        standardDeduction |-> 75000, other |-> 0]
  ELSE [section80C |-> MathMin(deductions.section80C, 150000),
        section80D |-> MathMin(deductions.section80D, 25000),
        hra |-> MathMin(2 * deductions.hra, income),
        standardDeduction |-> 50000,
        other |-> MathMin(deductions.homeLoanInterest, 200000)
                    + deductions.otherDeductions]

\* The deduction breakdown (hra in half rupees, the rest in rupees).
deductionBreakdown(income, deductions, isNewRegime) ==
  IF isNewRegime
  THEN [section80C |-> 0, section80D |-> 0, hra |-> 0,
        standardDeduction |-> 75000, other |-> 0]
  ELSE [section80C |-> MathMin(deductions.section80C, 150000),
        section80D |-> MathMin(deductions.section80D, 25000),
        hra |-> MathMin(2 * deductions.hra, income),
        standardDeduction |-> 50000,
        other |-> deductions.homeLoanInterest + deductions.otherDeductions]

\* Object.values(deductionBreakdown).reduce(sum), in half rupees.
totalDeductions(b) ==
  2 * b.section80C + 2 * b.section80D + b.hra + 2 * b.standardDeduction + 2 * b.other

\* taxableIncomeOf with the new regime also subtracting the section 80C amount.
taxableIncomeOf_newTakes80C(income, deductions, isNewRegime) ==
  IF isNewRegime
  THEN 2 * income - 2 * 75000 - 2 * MathMin(deductions.section80C, 150000)
  ELSE 2 * income - totalDeductions(deductionBreakdown(income, deductions, isNewRegime))

\* taxableIncomeOf with the old regime subtracting the amounts as entered
\* instead of the capped amounts of the breakdown.
taxableIncomeOf_requested(income, deductions, isNewRegime) ==
  IF isNewRegime
  THEN 2 * income - 2 * 75000
  ELSE 2 * income
         - 2 * ( deductions.section80C + deductions.section80D + deductions.hra
                 + 50000 + deductions.homeLoanInterest + deductions.otherDeductions )

\* taxableIncome after the deductions, in half rupees; no lower bound is applied.
taxableIncomeOf(income, deductions, isNewRegime) ==
  IF isNewRegime
  THEN 2 * income - 2 * 75000
  ELSE 2 * income - totalDeductions(deductionBreakdown(income, deductions, isNewRegime))

\* (n / 100000).toFixed(0): the nearest integer, a tie away from zero (n >= 0).
toFixed0Lakh(n) == (n + 50000) \div 100000

\* The label of a slab; the rupee sign is written Rs.
slabLabel(slab) ==
  IF slab.max = POSITIVE_INFINITY
  THEN <<"Rs", toFixed0Lakh(slab.min), "L+">>
  ELSE <<"Rs", toFixed0Lakh(slab.min), "L - Rs", toFixed0Lakh(slab.max), "L">>

\* taxableInThisSlab without the Math.min: everything above slab.min.
taxableInThisSlab_noUpper(taxableIncome, slab) == taxableIncome - 2 * slab.min

\* Math.min(taxableIncome - slab.min, slab.max - slab.min), in half rupees.
taxableInThisSlab(taxableIncome, slab) ==
  IF slab.max = POSITIVE_INFINITY
  THEN taxableIncome - 2 * slab.min
  ELSE MathMin(taxableIncome - 2 * slab.min, 2 * slab.max - 2 * slab.min)

\* taxableInThisSlab * slab.rate, in 1/200 rupee.
taxInThisSlab(taxableIncome, slab) == taxableInThisSlab(taxableIncome, slab) * slab.rate

\* slabLoop with "tax = taxInThisSlab" in place of "tax += taxInThisSlab".
RECURSIVE slabLoop_assign(_, _, _, _)
slabLoop_assign(taxableIncome, slabs, i, acc) ==
  IF i > Len(slabs) THEN acc
  ELSE LET slab == slabs[i]
           t    == taxInThisSlab(taxableIncome, slab)
       IN  IF taxableIncome > 2 * slab.min
           THEN slabLoop_assign(taxableIncome, slabs, i + 1,
                  [tax |-> t,
                   taxBreakdown |->
                     IF t > 0
                     THEN Append(acc.taxBreakdown,
                            [slab |-> slabLabel(slab),
                             rate |-> <<slab.rate, "%">>,
                             tax  |-> t])
                     ELSE acc.taxBreakdown])
           ELSE slabLoop_assign(taxableIncome, slabs, i + 1, acc)

\* slabLoop with each breakdown entry's tax rounded to whole rupees.
RECURSIVE slabLoop_roundedEntries(_, _, _, _)
slabLoop_roundedEntries(taxableIncome, slabs, i, acc) ==
  IF i > Len(slabs) THEN acc
  ELSE LET slab == slabs[i]
           t    == taxInThisSlab(taxableIncome, slab)
       IN  IF taxableIncome > 2 * slab.min
           THEN slabLoop_roundedEntries(taxableIncome, slabs, i + 1,
                  [tax |-> acc.tax + t,
                   taxBreakdown |->
                     IF t > 0
                     THEN Append(acc.taxBreakdown,
                            [slab |-> slabLabel(slab),
                             rate |-> <<slab.rate, "%">>,
                             tax  |-> 200 * MathRound(t, 200)])
                     ELSE acc.taxBreakdown])
           ELSE slabLoop_roundedEntries(taxableIncome, slabs, i + 1, acc)

\* slabLoop without the "if (taxInThisSlab > 0)" around the push.
RECURSIVE slabLoop_pushAll(_, _, _, _)
slabLoop_pushAll(taxableIncome, slabs, i, acc) ==
  IF i > Len(slabs) THEN acc
  ELSE LET slab == slabs[i]
           t    == taxInThisSlab(taxableIncome, slab)
       IN  IF taxableIncome > 2 * slab.min
           THEN slabLoop_pushAll(taxableIncome, slabs, i + 1,
                  [tax |-> acc.tax + t,
                   taxBreakdown |->
                     IF TRUE
                     THEN Append(acc.taxBreakdown,
                            [slab |-> slabLabel(slab),
                             rate |-> <<slab.rate, "%">>,
                             tax  |-> t])
                     ELSE acc.taxBreakdown])
           ELSE slabLoop_pushAll(taxableIncome, slabs, i + 1, acc)

\* slabLoop without the "if (taxableIncome > slab.min)" around the body.
RECURSIVE slabLoop_noGuard(_, _, _, _)
slabLoop_noGuard(taxableIncome, slabs, i, acc) ==
  IF i > Len(slabs) THEN acc
  ELSE LET slab == slabs[i]
           t    == taxInThisSlab(taxableIncome, slab)
       IN  slabLoop_noGuard(taxableIncome, slabs, i + 1,
             [tax |-> acc.tax + t,
              taxBreakdown |->
                IF t > 0
                THEN Append(acc.taxBreakdown,
                       [slab |-> slabLabel(slab),
                        rate |-> <<slab.rate, "%">>,
                        tax  |-> t])
                ELSE acc.taxBreakdown])

\* The for loop over the slabs from index i on: acc is [tax, taxBreakdown] so far.
RECURSIVE slabLoop(_, _, _, _)
slabLoop(taxableIncome, slabs, i, acc) ==
  IF i > Len(slabs) THEN acc
  ELSE LET slab == slabs[i]
           t    == taxInThisSlab(taxableIncome, slab)
       IN  IF taxableIncome > 2 * slab.min
           THEN slabLoop(taxableIncome, slabs, i + 1,
                  [tax |-> acc.tax + t,
                   taxBreakdown |->
                     IF t > 0
                     THEN Append(acc.taxBreakdown,
                            [slab |-> slabLabel(slab),
                             rate |-> <<slab.rate, "%">>,
                             tax  |-> t])
                     ELSE acc.taxBreakdown])
           ELSE slabLoop(taxableIncome, slabs, i + 1, acc)

\* tax and taxBreakdown of a taxable income given in half rupees.
slabTax(taxableIncome, isNewRegime) ==
  slabLoop(taxableIncome, slabsOf(isNewRegime), 1, [tax |-> 0, taxBreakdown |-> <<>>])

\* cessOf with the cess rounded to whole rupees before it is added.
cessOf_rounded(tax) == 5000 * MathRound(tax, 5000)

\* cess = tax * 0.04 : tax in 1/200 rupee, cess in 1/5000 rupee.
cessOf(tax) == tax

\* totalTax = tax + cess, in 1/2500 rupee (tax in 1/200, cess in 1/5000).
totalTaxOf(tax, cess) == 12 * tax + (tax + cess) \div 2

NaN == [kind |-> "NaN", num |-> 0, den |-> 0]

Infinity == [kind |-> "Infinity", num |-> 1, den |-> 0]

\* effectiveRateOf computed from the rounded liability instead of totalTax.
effectiveRateOf_rounded(totalTax, income) ==
  LET rounded == 2500 * MathRound(totalTax, 2500)
  IN  IF income = 0
      THEN IF rounded = 0 THEN NaN ELSE Infinity
      ELSE LET g == GCD(rounded, 25 * MathAbs(income))
               s == IF income < 0 THEN -1 ELSE 1
           IN  [kind |-> "finite", num |-> s * (rounded \div g),
                den |-> (25 * MathAbs(income)) \div g]

\* (totalTax / income) * 100 with totalTax in 1/2500 rupee: totalTax / (25 * income).
effectiveRateOf(totalTax, income) ==
  IF income = 0
  THEN IF totalTax = 0 THEN NaN ELSE Infinity
  ELSE LET g == GCD(totalTax, 25 * MathAbs(income))
           s == IF income < 0 THEN -1 ELSE 1
       IN  [kind |-> "finite", num |-> s * (totalTax \div g),
            den |-> (25 * MathAbs(income)) \div g]

\* The local "tax" of calculateTax after the slab loop, in 1/200 rupee.
taxBeforeCess(income, deductions, isNewRegime) ==
  slabTax(taxableIncomeOf(income, deductions, isNewRegime), isNewRegime).tax

calculateTax(income, deductions, isNewRegime) ==
  LET taxableIncome == taxableIncomeOf(income, deductions, isNewRegime)
      st       == slabTax(taxableIncome, isNewRegime)
      cess     == cessOf(st.tax)
      totalTax == totalTaxOf(st.tax, cess)
  IN  [taxLiability  |-> MathRound(totalTax, 2500),
       effectiveRate |-> effectiveRateOf(totalTax, income),
       deductions    |-> deductionBreakdown(income, deductions, isNewRegime),
       taxBreakdown  |-> st.taxBreakdown,
       taxableIncome |-> MathRound(taxableIncome, 2)]

(* ------------------------- the component's render ---------------------- *)

oldRegimeCalc == calculateTax(scenario.income, scenario, FALSE)

newRegimeCalc == calculateTax(scenario.income, scenario, TRUE)

\* regimeData with the two "recommended" comparisons the wrong way round.
regimeData_swapped ==
  << [regime        |-> "Old Tax Regime",
      taxLiability  |-> oldRegimeCalc.taxLiability,
      effectiveRate |-> oldRegimeCalc.effectiveRate,
      savings       |-> 0,
      recommended   |-> oldRegimeCalc.taxLiability > newRegimeCalc.taxLiability,
      deductions    |-> oldRegimeCalc.deductions,
      taxBreakdown  |-> oldRegimeCalc.taxBreakdown],
     [regime        |-> "New Tax Regime",
      taxLiability  |-> newRegimeCalc.taxLiability,
      effectiveRate |-> newRegimeCalc.effectiveRate,
      savings       |-> MathMax(0, oldRegimeCalc.taxLiability - newRegimeCalc.taxLiability),
      recommended   |-> newRegimeCalc.taxLiability > oldRegimeCalc.taxLiability,
      deductions    |-> newRegimeCalc.deductions,
      taxBreakdown  |-> newRegimeCalc.taxBreakdown] >>

\* regimeData with "<=" in place of "<" in the two "recommended" comparisons.
regimeData_nonStrict ==
  << [regime        |-> "Old Tax Regime",
      taxLiability  |-> oldRegimeCalc.taxLiability,
      effectiveRate |-> oldRegimeCalc.effectiveRate,
      savings       |-> 0,
      recommended   |-> oldRegimeCalc.taxLiability <= newRegimeCalc.taxLiability,
      deductions    |-> oldRegimeCalc.deductions,
      taxBreakdown  |-> oldRegimeCalc.taxBreakdown],
     [regime        |-> "New Tax Regime",
      taxLiability  |-> newRegimeCalc.taxLiability,
      effectiveRate |-> newRegimeCalc.effectiveRate,
      savings       |-> MathMax(0, oldRegimeCalc.taxLiability - newRegimeCalc.taxLiability),
      recommended   |-> newRegimeCalc.taxLiability <= oldRegimeCalc.taxLiability,
      deductions    |-> newRegimeCalc.deductions,
      taxBreakdown  |-> newRegimeCalc.taxBreakdown] >>

regimeData ==
  << [regime        |-> "Old Tax Regime",
      taxLiability  |-> oldRegimeCalc.taxLiability,
      effectiveRate |-> oldRegimeCalc.effectiveRate,
      savings       |-> 0,
      recommended   |-> oldRegimeCalc.taxLiability < newRegimeCalc.taxLiability,
      deductions    |-> oldRegimeCalc.deductions,
      taxBreakdown  |-> oldRegimeCalc.taxBreakdown],
     [regime        |-> "New Tax Regime",
      taxLiability  |-> newRegimeCalc.taxLiability,
      effectiveRate |-> newRegimeCalc.effectiveRate,
      savings       |-> MathMax(0, oldRegimeCalc.taxLiability - newRegimeCalc.taxLiability),
      recommended   |-> newRegimeCalc.taxLiability < oldRegimeCalc.taxLiability,
      deductions    |-> newRegimeCalc.deductions,
      taxBreakdown  |-> newRegimeCalc.taxBreakdown] >>

\* What Array.prototype.find returns when no element matches.
undefined == [regime |-> "undefined"]

\* regimeData.find((r) => r.recommended): the first match, or undefined.
find(arr) ==
  IF \E i \in 1..Len(arr) : arr[i].recommended
  THEN arr[CHOOSE i \in 1..Len(arr) :
             arr[i].recommended /\ \A j \in 1..(i - 1) : ~arr[j].recommended]
  ELSE undefined

recommendedRegime == find(regimeData)

\* totalSavings computed like the "savings" field: Math.max(0, old - new).
totalSavings_oneSided ==
  MathMax(0, oldRegimeCalc.taxLiability - newRegimeCalc.taxLiability)

totalSavings == MathAbs(oldRegimeCalc.taxLiability - newRegimeCalc.taxLiability)

(* ------------------------------ the inputs ----------------------------- *)

\* The income grid reaches MaxIncomeSteps * 250000 rupees.
MaxIncomeSteps == 10

\* Amounts typed into the income field.
IncomeAmounts ==
  {k * 250000 : k \in 0..MaxIncomeSteps} \cup {-100000, 250125, 375125, 1200000, 1200125}

\* Texts a number input can hold that are not plain integers: the empty text
\* (nothing, or nothing valid, entered), a decimal, an exponent form.
OddTexts == { <<>>, <<"1", "2", ".", "5">>, <<"1", "e", "5">> }

IncomeTexts == {numberText(n) : n \in IncomeAmounts} \cup OddTexts

HraTexts == {numberText(n) : n \in {0, 120000, 800000, -50000}} \cup {<<>>}

Section80CTexts == {numberText(n) : n \in {0, 150000, 999999, -50000}} \cup {<<>>}

Section80DTexts == {numberText(n) : n \in {0, 25000, 999999, -5000}} \cup {<<>>}

HomeLoanTexts == {numberText(n) : n \in {0, 200000, 300000, -50000}} \cup {<<>>}

IncomePresets == {800000, 1200000, 1500000, 2000000, 2500000}

(* --------------------------- state and actions ------------------------- *)

\* useState<TaxScenario>({...}): the scenario the component starts with.
InitialScenario ==
  [income |-> 1200000, hra |-> 120000, section80C |-> 150000,
   section80D |-> 25000, homeLoanInterest |-> 200000, otherDeductions |-> 50000]

SimulatorInit == scenario = InitialScenario

SetIncome ==
  \E text \in IncomeTexts :
    /\ scenario' = [scenario EXCEPT !.income = parseIntOrZero(text)]
    /\ UNCHANGED outsideSimulator

PresetIncome ==
  \E income \in IncomePresets :
    /\ scenario' = [scenario EXCEPT !.income = income]
    /\ UNCHANGED outsideSimulator

SetHra ==
  \E text \in HraTexts :
    /\ scenario' = [scenario EXCEPT !.hra = parseIntOrZero(text)]
    /\ UNCHANGED outsideSimulator

SetSection80C ==
  \E text \in Section80CTexts :
    /\ scenario' = [scenario EXCEPT !.section80C = parseIntOrZero(text)]
    /\ UNCHANGED outsideSimulator

\* SetSection80D writing the section80C field (a handler copied from the 80C input).
SetSection80D_wrongField ==
  \E text \in Section80DTexts :
    /\ scenario' = [scenario EXCEPT !.section80C = parseIntOrZero(text)]
    /\ UNCHANGED outsideSimulator

SetSection80D ==
  \E text \in Section80DTexts :
    /\ scenario' = [scenario EXCEPT !.section80D = parseIntOrZero(text)]
    /\ UNCHANGED outsideSimulator

SetHomeLoanInterest ==
  \E text \in HomeLoanTexts :
    /\ scenario' = [scenario EXCEPT !.homeLoanInterest = parseIntOrZero(text)]
    /\ UNCHANGED outsideSimulator

Next ==
  \/ SetIncome
  \/ PresetIncome
  \/ SetHra
  \/ SetSection80C
  \/ SetSection80D
  \/ SetHomeLoanInterest

(* ---------------- calculateTax, statement by statement ---------------- *)

\* The two calls of a render: calculateTax(.., false) and calculateTax(.., true).
Regimes == {"old", "new"}

OtherRegime(r) == IF r = "old" THEN "new" ELSE "old"

IsNewRegime(r) == r = "new"

\* const deductionBreakdown = { section80C: 0, ... }
ZeroBreakdown ==
  [section80C |-> 0, section80D |-> 0, hra |-> 0, standardDeduction |-> 0, other |-> 0]

\* What a call that has not returned has for a result.
NoResult == [returned |-> FALSE]

\* The locals of a call that has not started.
IdleFrame ==
  [pc |-> "idle", income |-> 0, taxableIncome |-> 0,
   deductionBreakdown |-> ZeroBreakdown, tax |-> 0, taxBreakdown |-> <<>>,
   i |-> 0, result |-> NoResult]

CalcInit == calc = [r \in Regimes |-> IdleFrame]

\* Scenarios the form can hold when a render starts: the initial one, an income
\* of 0, requested amounts above the caps with an odd income, a large income
\* without deductions, a negative entry.
CalcScenarios ==
  { InitialScenario,
    [InitialScenario EXCEPT !.income = 0],
    [InitialScenario EXCEPT !.income = 1200125, !.hra = 800000, !.section80C = 999999,
                            !.section80D = 999999, !.homeLoanInterest = 300000],
    [InitialScenario EXCEPT !.income = 2500000, !.hra = 0, !.section80C = 0,
                            !.section80D = 0, !.homeLoanInterest = 0],
    [InitialScenario EXCEPT !.income = 250125, !.section80C = -50000] }

\* The call is entered: income is passed by value, deductions is the scenario
\* object itself; "let taxableIncome = income" and the zeroed breakdown.
CalcBegin(r) ==
  /\ calc[r].pc = "idle"
  /\ calc' = [calc EXCEPT ![r] =
                [@ EXCEPT !.pc = "deductions",
                          !.income = scenario.income,
                          !.taxableIncome = 2 * scenario.income,
                          !.deductionBreakdown = ZeroBreakdown]]
  /\ UNCHANGED <<scenario, outsideCalc>>

\* CalcDeductions writing the capped amounts back into the deductions object it
\* was given (the scenario), not only into its own breakdown.
CalcDeductions_inPlace(r) ==
  /\ calc[r].pc = "deductions"
  /\ LET b == deductionBreakdown(calc[r].income, scenario, IsNewRegime(r))
     IN  /\ calc' = [calc EXCEPT ![r] =
                       [@ EXCEPT !.pc = "slabs",
                                 !.deductionBreakdown = b,
                                 !.taxableIncome = @ - totalDeductions(b),
                                 !.tax = 0,
                                 !.taxBreakdown = <<>>,
                                 !.i = 1]]
         /\ scenario' = IF IsNewRegime(r) THEN scenario
                        ELSE [scenario EXCEPT !.section80C = b.section80C,
                                              !.section80D = b.section80D]
  /\ UNCHANGED outsideCalc

\* The if / else over isNewRegime that fills the breakdown and lowers
\* taxableIncome, then "let tax = 0" and "const taxBreakdown = []".
CalcDeductions(r) ==
  /\ calc[r].pc = "deductions"
  /\ LET b == deductionBreakdown(calc[r].income, scenario, IsNewRegime(r))
     IN  calc' = [calc EXCEPT ![r] =
                   [@ EXCEPT !.pc = "slabs",
                             !.deductionBreakdown = b,
                             !.taxableIncome = @ - totalDeductions(b),
                             !.tax = 0,
                             !.taxBreakdown = <<>>,
                             !.i = 1]]
  /\ UNCHANGED <<scenario, outsideCalc>>

\* One turn of "for (const slab of slabs)".
CalcSlab(r) ==
  /\ calc[r].pc = "slabs"
  /\ calc[r].i <= Len(slabsOf(IsNewRegime(r)))
  /\ LET acc == slabLoop(calc[r].taxableIncome, <<slabsOf(IsNewRegime(r))[calc[r].i]>>, 1,
                         [tax |-> calc[r].tax, taxBreakdown |-> calc[r].taxBreakdown])
     IN  calc' = [calc EXCEPT ![r] =
                   [@ EXCEPT !.tax = acc.tax,
                             !.taxBreakdown = acc.taxBreakdown,
                             !.i = @ + 1]]
  /\ UNCHANGED <<scenario, outsideCalc>>

\* cess, totalTax and the returned object.
CalcReturn(r) ==
  /\ calc[r].pc = "slabs"
  /\ calc[r].i > Len(slabsOf(IsNewRegime(r)))
  /\ LET cess     == cessOf(calc[r].tax)
         totalTax == totalTaxOf(calc[r].tax, cess)
     IN  calc' = [calc EXCEPT ![r] =
                   [@ EXCEPT !.pc = "done",
                             !.result =
                               [taxLiability  |-> MathRound(totalTax, 2500),
                                effectiveRate |-> effectiveRateOf(totalTax, calc[r].income),
                                deductions    |-> calc[r].deductionBreakdown,
                                taxBreakdown  |-> calc[r].taxBreakdown,
                                taxableIncome |-> MathRound(calc[r].taxableIncome, 2)]]]
  /\ UNCHANGED <<scenario, outsideCalc>>

CalcStep(r) == CalcBegin(r) \/ CalcDeductions(r) \/ CalcSlab(r) \/ CalcReturn(r)

CalcNext ==
  \/ \E r \in Regimes : CalcBegin(r)
  \/ \E r \in Regimes : CalcDeductions(r)
  \/ \E r \in Regimes : CalcSlab(r)
  \/ \E r \in Regimes : CalcReturn(r)

(* ----------------------------- AICopilotPage --------------------------- *)

\* A text is the sequence of its UTF-16 code units, as a JavaScript string is.
\* utf16 gives the text of a literal of the source, written here as a TLA+
\* string of the rupee sign and the printable ASCII characters (codes 32..95 and
\* 97..126; a TLA+ string cannot hold code 96, and no literal used here has it).
utf16(s) ==
  LET upTo95 == " !\"#$%&'()*+,-./0123456789:;<=>?@ABCDEFGHIJKLMNOPQRSTUVWXYZ[\\]^_"
      from97 == "abcdefghijklmnopqrstuvwxyz{|}~"
      unit(c) ==
        IF c = "₹" THEN 8377
        ELSE IF \E k \in 1..Len(from97) : SubSeq(from97, k, k) = c
        THEN 96 + CHOOSE k \in 1..Len(from97) : SubSeq(from97, k, k) = c
        ELSE 31 + CHOOSE k \in 1..Len(upTo95) : SubSeq(upTo95, k, k) = c
  IN  [i \in 1..Len(s) |-> unit(SubSeq(s, i, i))]

\* The code units String.prototype.trim removes: WhiteSpace (TAB, VT, FF, SP,
\* NBSP, ZWNBSP and the space separators) and LineTerminator (LF, CR, LS, PS).
Whitespace ==
  {9, 10, 11, 12, 13, 32, 160, 5760} \cup (8192..8202)
    \cup {8232, 8233, 8239, 8287, 12288, 65279}

RECURSIVE trimStart(_)
trimStart(s) ==
  IF Len(s) > 0 /\ s[1] \in Whitespace
  THEN trimStart(SubSeq(s, 2, Len(s)))
  ELSE s

RECURSIVE trimEnd(_)
trimEnd(s) ==
  IF Len(s) > 0 /\ s[Len(s)] \in Whitespace
  THEN trimEnd(SubSeq(s, 1, Len(s) - 1))
  ELSE s

\* String.prototype.trim
trim(s) == trimEnd(trimStart(s))

\* The code points of a text: a high surrogate followed by a low one is one
\* code point, any other code unit stands for itself.
RECURSIVE codePoints(_)
codePoints(s) ==
  IF Len(s) = 0 THEN <<>>
  ELSE IF /\ Len(s) > 1
          /\ s[1] \in 55296..56319
          /\ s[2] \in 56320..57343
  THEN <<65536 + (s[1] - 55296) * 1024 + (s[2] - 56320)>>
         \o codePoints(SubSeq(s, 3, Len(s)))
  ELSE <<s[1]>> \o codePoints(SubSeq(s, 2, Len(s)))

\* The text of a sequence of code points.
RECURSIVE codeUnits(_)
codeUnits(cps) ==
  IF Len(cps) = 0 THEN <<>>
  ELSE (IF Head(cps) >= 65536
        THEN <<55296 + ((Head(cps) - 65536) \div 1024),
               56320 + ((Head(cps) - 65536) % 1024)>>
        ELSE <<Head(cps)>>) \o codeUnits(Tail(cps))

\* The simple lowercase mappings of the Unicode character database, version
\* 17.0 (the version of the JavaScript engine decides; the three tables here
\* are those of Node.js 20.20 with ICU 78): <<first, last, step, delta>> maps
\* the code points first, first + step, ..., last to themselves plus delta.
LowerCaseRanges ==
  << <<65, 90, 1, 32>>, <<192, 214, 1, 32>>, <<216, 222, 1, 32>>, <<256, 302, 2, 1>>,
     <<306, 310, 2, 1>>, <<313, 327, 2, 1>>, <<330, 374, 2, 1>>, <<376, 376, 1, -121>>,
     <<377, 381, 2, 1>>, <<385, 385, 1, 210>>, <<386, 388, 2, 1>>, <<390, 390, 1, 206>>,
     <<391, 391, 1, 1>>, <<393, 394, 1, 205>>, <<395, 395, 1, 1>>, <<398, 398, 1, 79>>,
     <<399, 399, 1, 202>>, <<400, 400, 1, 203>>, <<401, 401, 1, 1>>, <<403, 403, 1, 205>>,
     <<404, 404, 1, 207>>, <<406, 406, 1, 211>>, <<407, 407, 1, 209>>, <<408, 408, 1, 1>>,
     <<412, 412, 1, 211>>, <<413, 413, 1, 213>>, <<415, 415, 1, 214>>, <<416, 420, 2, 1>>,
     <<422, 422, 1, 218>>, <<423, 423, 1, 1>>, <<425, 425, 1, 218>>, <<428, 428, 1, 1>>,
     <<430, 430, 1, 218>>, <<431, 431, 1, 1>>, <<433, 434, 1, 217>>, <<435, 437, 2, 1>>,
     <<439, 439, 1, 219>>, <<440, 440, 1, 1>>, <<444, 444, 1, 1>>, <<452, 452, 1, 2>>,
     <<453, 453, 1, 1>>, <<455, 455, 1, 2>>, <<456, 456, 1, 1>>, <<458, 458, 1, 2>>,
     <<459, 475, 2, 1>>, <<478, 494, 2, 1>>, <<497, 497, 1, 2>>, <<498, 500, 2, 1>>,
     <<502, 502, 1, -97>>, <<503, 503, 1, -56>>, <<504, 542, 2, 1>>, <<544, 544, 1, -130>>,
     <<546, 562, 2, 1>>, <<570, 570, 1, 10795>>, <<571, 571, 1, 1>>, <<573, 573, 1, -163>>,
     <<574, 574, 1, 10792>>, <<577, 577, 1, 1>>, <<579, 579, 1, -195>>, <<580, 580, 1, 69>>,
     <<581, 581, 1, 71>>, <<582, 590, 2, 1>>, <<880, 882, 2, 1>>, <<886, 886, 1, 1>>,
     <<895, 895, 1, 116>>, <<902, 902, 1, 38>>, <<904, 906, 1, 37>>, <<908, 908, 1, 64>>,
     <<910, 911, 1, 63>>, <<913, 929, 1, 32>>, <<931, 939, 1, 32>>, <<975, 975, 1, 8>>,
     <<984, 1006, 2, 1>>, <<1012, 1012, 1, -60>>, <<1015, 1015, 1, 1>>, <<1017, 1017, 1, -7>>,
     <<1018, 1018, 1, 1>>, <<1021, 1023, 1, -130>>, <<1024, 1039, 1, 80>>,
     <<1040, 1071, 1, 32>>, <<1120, 1152, 2, 1>>, <<1162, 1214, 2, 1>>, <<1216, 1216, 1, 15>>,
     <<1217, 1229, 2, 1>>, <<1232, 1326, 2, 1>>, <<1329, 1366, 1, 48>>, <<4256, 4293, 1, 7264>>,
     <<4295, 4295, 1, 7264>>, <<4301, 4301, 1, 7264>>, <<5024, 5103, 1, 38864>>,
     <<5104, 5109, 1, 8>>, <<7305, 7305, 1, 1>>, <<7312, 7354, 1, -3008>>,
     <<7357, 7359, 1, -3008>>, <<7680, 7828, 2, 1>>, <<7838, 7838, 1, -7615>>,
     <<7840, 7934, 2, 1>>, <<7944, 7951, 1, -8>>, <<7960, 7965, 1, -8>>, <<7976, 7983, 1, -8>>,
     <<7992, 7999, 1, -8>>, <<8008, 8013, 1, -8>>, <<8025, 8031, 2, -8>>, <<8040, 8047, 1, -8>>,
     <<8072, 8079, 1, -8>>, <<8088, 8095, 1, -8>>, <<8104, 8111, 1, -8>>, <<8120, 8121, 1, -8>>,
     <<8122, 8123, 1, -74>>, <<8124, 8124, 1, -9>>, <<8136, 8139, 1, -86>>,
     <<8140, 8140, 1, -9>>, <<8152, 8153, 1, -8>>, <<8154, 8155, 1, -100>>,
     <<8168, 8169, 1, -8>>, <<8170, 8171, 1, -112>>, <<8172, 8172, 1, -7>>,
     <<8184, 8185, 1, -128>>, <<8186, 8187, 1, -126>>, <<8188, 8188, 1, -9>>,
     <<8486, 8486, 1, -7517>>, <<8490, 8490, 1, -8383>>, <<8491, 8491, 1, -8262>>,
     <<8498, 8498, 1, 28>>, <<8544, 8559, 1, 16>>, <<8579, 8579, 1, 1>>, <<9398, 9423, 1, 26>>,
     <<11264, 11311, 1, 48>>, <<11360, 11360, 1, 1>>, <<11362, 11362, 1, -10743>>,
     <<11363, 11363, 1, -3814>>, <<11364, 11364, 1, -10727>>, <<11367, 11371, 2, 1>>,
     <<11373, 11373, 1, -10780>>, <<11374, 11374, 1, -10749>>, <<11375, 11375, 1, -10783>>,
     <<11376, 11376, 1, -10782>>, <<11378, 11378, 1, 1>>, <<11381, 11381, 1, 1>>,
     <<11390, 11391, 1, -10815>>, <<11392, 11490, 2, 1>>, <<11499, 11501, 2, 1>>,
     <<11506, 11506, 1, 1>>, <<42560, 42604, 2, 1>>, <<42624, 42650, 2, 1>>,
     <<42786, 42798, 2, 1>>, <<42802, 42862, 2, 1>>, <<42873, 42875, 2, 1>>,
     <<42877, 42877, 1, -35332>>, <<42878, 42886, 2, 1>>, <<42891, 42891, 1, 1>>,
     <<42893, 42893, 1, -42280>>, <<42896, 42898, 2, 1>>, <<42902, 42920, 2, 1>>,
     <<42922, 42922, 1, -42308>>, <<42923, 42923, 1, -42319>>, <<42924, 42924, 1, -42315>>,
     <<42925, 42925, 1, -42305>>, <<42926, 42926, 1, -42308>>, <<42928, 42928, 1, -42258>>,
     <<42929, 42929, 1, -42282>>, <<42930, 42930, 1, -42261>>, <<42931, 42931, 1, 928>>,
     <<42932, 42946, 2, 1>>, <<42948, 42948, 1, -48>>, <<42949, 42949, 1, -42307>>,
     <<42950, 42950, 1, -35384>>, <<42951, 42953, 2, 1>>, <<42955, 42955, 1, -42343>>,
     <<42956, 42970, 2, 1>>, <<42972, 42972, 1, -42561>>, <<42997, 42997, 1, 1>>,
     <<65313, 65338, 1, 32>>, <<66560, 66599, 1, 40>>, <<66736, 66771, 1, 40>>,
     <<66928, 66938, 1, 39>>, <<66940, 66954, 1, 39>>, <<66956, 66962, 1, 39>>,
     <<66964, 66965, 1, 39>>, <<68736, 68786, 1, 64>>, <<68944, 68965, 1, 32>>,
     <<71840, 71871, 1, 32>>, <<93760, 93791, 1, 32>>, <<93856, 93880, 1, 27>>,
     <<125184, 125217, 1, 34>> >>

\* The code points with the Unicode property Cased, as ranges <<first, last>>.
CasedRanges ==
  << <<65, 90>>, <<97, 122>>, <<170, 170>>, <<181, 181>>, <<186, 186>>, <<192, 214>>,
     <<216, 246>>, <<248, 442>>, <<444, 447>>, <<452, 659>>, <<662, 696>>, <<704, 705>>,
     <<736, 740>>, <<837, 837>>, <<880, 883>>, <<886, 887>>, <<890, 893>>, <<895, 895>>,
     <<902, 902>>, <<904, 906>>, <<908, 908>>, <<910, 929>>, <<931, 1013>>, <<1015, 1153>>,
     <<1162, 1327>>, <<1329, 1366>>, <<1376, 1416>>, <<4256, 4293>>, <<4295, 4295>>,
     <<4301, 4301>>, <<4304, 4346>>, <<4348, 4351>>, <<5024, 5109>>, <<5112, 5117>>,
     <<7296, 7306>>, <<7312, 7354>>, <<7357, 7359>>, <<7424, 7615>>, <<7680, 7957>>,
     <<7960, 7965>>, <<7968, 8005>>, <<8008, 8013>>, <<8016, 8023>>, <<8025, 8025>>,
     <<8027, 8027>>, <<8029, 8029>>, <<8031, 8061>>, <<8064, 8116>>, <<8118, 8124>>,
     <<8126, 8126>>, <<8130, 8132>>, <<8134, 8140>>, <<8144, 8147>>, <<8150, 8155>>,
     <<8160, 8172>>, <<8178, 8180>>, <<8182, 8188>>, <<8305, 8305>>, <<8319, 8319>>,
     <<8336, 8348>>, <<8450, 8450>>, <<8455, 8455>>, <<8458, 8467>>, <<8469, 8469>>,
     <<8473, 8477>>, <<8484, 8484>>, <<8486, 8486>>, <<8488, 8488>>, <<8490, 8493>>,
     <<8495, 8500>>, <<8505, 8505>>, <<8508, 8511>>, <<8517, 8521>>, <<8526, 8526>>,
     <<8544, 8575>>, <<8579, 8580>>, <<9398, 9449>>, <<11264, 11492>>, <<11499, 11502>>,
     <<11506, 11507>>, <<11520, 11557>>, <<11559, 11559>>, <<11565, 11565>>, <<42560, 42605>>,
     <<42624, 42653>>, <<42786, 42887>>, <<42891, 42894>>, <<42896, 42972>>, <<42993, 42998>>,
     <<43000, 43002>>, <<43824, 43866>>, <<43868, 43881>>, <<43888, 43967>>, <<64256, 64262>>,
     <<64275, 64279>>, <<65313, 65338>>, <<65345, 65370>>, <<66560, 66639>>, <<66736, 66771>>,
     <<66776, 66811>>, <<66928, 66938>>, <<66940, 66954>>, <<66956, 66962>>, <<66964, 66965>>,
     <<66967, 66977>>, <<66979, 66993>>, <<66995, 67001>>, <<67003, 67004>>, <<67456, 67456>>,
     <<67459, 67461>>, <<67463, 67504>>, <<67506, 67514>>, <<68736, 68786>>, <<68800, 68850>>,
     <<68944, 68965>>, <<68976, 68997>>, <<71840, 71903>>, <<93760, 93823>>, <<93856, 93880>>,
     <<93883, 93907>>, <<119808, 119892>>, <<119894, 119964>>, <<119966, 119967>>,
     <<119970, 119970>>, <<119973, 119974>>, <<119977, 119980>>, <<119982, 119993>>,
     <<119995, 119995>>, <<119997, 120003>>, <<120005, 120069>>, <<120071, 120074>>,
     <<120077, 120084>>, <<120086, 120092>>, <<120094, 120121>>, <<120123, 120126>>,
     <<120128, 120132>>, <<120134, 120134>>, <<120138, 120144>>, <<120146, 120485>>,
     <<120488, 120512>>, <<120514, 120538>>, <<120540, 120570>>, <<120572, 120596>>,
     <<120598, 120628>>, <<120630, 120654>>, <<120656, 120686>>, <<120688, 120712>>,
     <<120714, 120744>>, <<120746, 120770>>, <<120772, 120779>>, <<122624, 122633>>,
     <<122635, 122654>>, <<122661, 122666>>, <<122928, 122989>>, <<125184, 125251>>,
     <<127280, 127305>>, <<127312, 127337>>, <<127344, 127369>> >>

\* The code points with the Unicode property Case_Ignorable, as ranges.
CaseIgnorableRanges ==
  << <<39, 39>>, <<46, 46>>, <<58, 58>>, <<94, 94>>, <<96, 96>>, <<168, 168>>, <<173, 173>>,
     <<175, 175>>, <<180, 180>>, <<183, 184>>, <<688, 879>>, <<884, 885>>, <<890, 890>>,
     <<900, 901>>, <<903, 903>>, <<1155, 1161>>, <<1369, 1369>>, <<1375, 1375>>, <<1425, 1469>>,
     <<1471, 1471>>, <<1473, 1474>>, <<1476, 1477>>, <<1479, 1479>>, <<1524, 1524>>,
     <<1536, 1541>>, <<1552, 1562>>, <<1564, 1564>>, <<1600, 1600>>, <<1611, 1631>>,
     <<1648, 1648>>, <<1750, 1757>>, <<1759, 1768>>, <<1770, 1773>>, <<1807, 1807>>,
     <<1809, 1809>>, <<1840, 1866>>, <<1958, 1968>>, <<2027, 2037>>, <<2042, 2042>>,
     <<2045, 2045>>, <<2070, 2093>>, <<2137, 2139>>, <<2184, 2184>>, <<2192, 2193>>,
     <<2199, 2207>>, <<2249, 2306>>, <<2362, 2362>>, <<2364, 2364>>, <<2369, 2376>>,
     <<2381, 2381>>, <<2385, 2391>>, <<2402, 2403>>, <<2417, 2417>>, <<2433, 2433>>,
     <<2492, 2492>>, <<2497, 2500>>, <<2509, 2509>>, <<2530, 2531>>, <<2558, 2558>>,
     <<2561, 2562>>, <<2620, 2620>>, <<2625, 2626>>, <<2631, 2632>>, <<2635, 2637>>,
     <<2641, 2641>>, <<2672, 2673>>, <<2677, 2677>>, <<2689, 2690>>, <<2748, 2748>>,
     <<2753, 2757>>, <<2759, 2760>>, <<2765, 2765>>, <<2786, 2787>>, <<2810, 2815>>,
     <<2817, 2817>>, <<2876, 2876>>, <<2879, 2879>>, <<2881, 2884>>, <<2893, 2893>>,
     <<2901, 2902>>, <<2914, 2915>>, <<2946, 2946>>, <<3008, 3008>>, <<3021, 3021>>,
     <<3072, 3072>>, <<3076, 3076>>, <<3132, 3132>>, <<3134, 3136>>, <<3142, 3144>>,
     <<3146, 3149>>, <<3157, 3158>>, <<3170, 3171>>, <<3201, 3201>>, <<3260, 3260>>,
     <<3263, 3263>>, <<3270, 3270>>, <<3276, 3277>>, <<3298, 3299>>, <<3328, 3329>>,
     <<3387, 3388>>, <<3393, 3396>>, <<3405, 3405>>, <<3426, 3427>>, <<3457, 3457>>,
     <<3530, 3530>>, <<3538, 3540>>, <<3542, 3542>>, <<3633, 3633>>, <<3636, 3642>>,
     <<3654, 3662>>, <<3761, 3761>>, <<3764, 3772>>, <<3782, 3782>>, <<3784, 3790>>,
     <<3864, 3865>>, <<3893, 3893>>, <<3895, 3895>>, <<3897, 3897>>, <<3953, 3966>>,
     <<3968, 3972>>, <<3974, 3975>>, <<3981, 3991>>, <<3993, 4028>>, <<4038, 4038>>,
     <<4141, 4144>>, <<4146, 4151>>, <<4153, 4154>>, <<4157, 4158>>, <<4184, 4185>>,
     <<4190, 4192>>, <<4209, 4212>>, <<4226, 4226>>, <<4229, 4230>>, <<4237, 4237>>,
     <<4253, 4253>>, <<4348, 4348>>, <<4957, 4959>>, <<5906, 5908>>, <<5938, 5939>>,
     <<5970, 5971>>, <<6002, 6003>>, <<6068, 6069>>, <<6071, 6077>>, <<6086, 6086>>,
     <<6089, 6099>>, <<6103, 6103>>, <<6109, 6109>>, <<6155, 6159>>, <<6211, 6211>>,
     <<6277, 6278>>, <<6313, 6313>>, <<6432, 6434>>, <<6439, 6440>>, <<6450, 6450>>,
     <<6457, 6459>>, <<6679, 6680>>, <<6683, 6683>>, <<6742, 6742>>, <<6744, 6750>>,
     <<6752, 6752>>, <<6754, 6754>>, <<6757, 6764>>, <<6771, 6780>>, <<6783, 6783>>,
     <<6823, 6823>>, <<6832, 6877>>, <<6880, 6891>>, <<6912, 6915>>, <<6964, 6964>>,
     <<6966, 6970>>, <<6972, 6972>>, <<6978, 6978>>, <<7019, 7027>>, <<7040, 7041>>,
     <<7074, 7077>>, <<7080, 7081>>, <<7083, 7085>>, <<7142, 7142>>, <<7144, 7145>>,
     <<7149, 7149>>, <<7151, 7153>>, <<7212, 7219>>, <<7222, 7223>>, <<7288, 7293>>,
     <<7376, 7378>>, <<7380, 7392>>, <<7394, 7400>>, <<7405, 7405>>, <<7412, 7412>>,
     <<7416, 7417>>, <<7468, 7530>>, <<7544, 7544>>, <<7579, 7679>>, <<8125, 8125>>,
     <<8127, 8129>>, <<8141, 8143>>, <<8157, 8159>>, <<8173, 8175>>, <<8189, 8190>>,
     <<8203, 8207>>, <<8216, 8217>>, <<8228, 8228>>, <<8231, 8231>>, <<8234, 8238>>,
     <<8288, 8292>>, <<8294, 8303>>, <<8305, 8305>>, <<8319, 8319>>, <<8336, 8348>>,
     <<8400, 8432>>, <<11388, 11389>>, <<11503, 11505>>, <<11631, 11631>>, <<11647, 11647>>,
     <<11744, 11775>>, <<11823, 11823>>, <<12293, 12293>>, <<12330, 12333>>, <<12337, 12341>>,
     <<12347, 12347>>, <<12441, 12446>>, <<12540, 12542>>, <<40981, 40981>>, <<42232, 42237>>,
     <<42508, 42508>>, <<42607, 42610>>, <<42612, 42621>>, <<42623, 42623>>, <<42652, 42655>>,
     <<42736, 42737>>, <<42752, 42785>>, <<42864, 42864>>, <<42888, 42890>>, <<42993, 42996>>,
     <<43000, 43001>>, <<43010, 43010>>, <<43014, 43014>>, <<43019, 43019>>, <<43045, 43046>>,
     <<43052, 43052>>, <<43204, 43205>>, <<43232, 43249>>, <<43263, 43263>>, <<43302, 43309>>,
     <<43335, 43345>>, <<43392, 43394>>, <<43443, 43443>>, <<43446, 43449>>, <<43452, 43453>>,
     <<43471, 43471>>, <<43493, 43494>>, <<43561, 43566>>, <<43569, 43570>>, <<43573, 43574>>,
     <<43587, 43587>>, <<43596, 43596>>, <<43632, 43632>>, <<43644, 43644>>, <<43696, 43696>>,
     <<43698, 43700>>, <<43703, 43704>>, <<43710, 43711>>, <<43713, 43713>>, <<43741, 43741>>,
     <<43756, 43757>>, <<43763, 43764>>, <<43766, 43766>>, <<43867, 43871>>, <<43881, 43883>>,
     <<44005, 44005>>, <<44008, 44008>>, <<44013, 44013>>, <<64286, 64286>>, <<64434, 64450>>,
     <<65024, 65039>>, <<65043, 65043>>, <<65056, 65071>>, <<65106, 65106>>, <<65109, 65109>>,
     <<65279, 65279>>, <<65287, 65287>>, <<65294, 65294>>, <<65306, 65306>>, <<65342, 65342>>,
     <<65344, 65344>>, <<65392, 65392>>, <<65438, 65439>>, <<65507, 65507>>, <<65529, 65531>>,
     <<66045, 66045>>, <<66272, 66272>>, <<66422, 66426>>, <<67456, 67461>>, <<67463, 67504>>,
     <<67506, 67514>>, <<68097, 68099>>, <<68101, 68102>>, <<68108, 68111>>, <<68152, 68154>>,
     <<68159, 68159>>, <<68325, 68326>>, <<68900, 68903>>, <<68942, 68942>>, <<68969, 68973>>,
     <<68975, 68975>>, <<69291, 69292>>, <<69317, 69317>>, <<69370, 69375>>, <<69446, 69456>>,
     <<69506, 69509>>, <<69633, 69633>>, <<69688, 69702>>, <<69744, 69744>>, <<69747, 69748>>,
     <<69759, 69761>>, <<69811, 69814>>, <<69817, 69818>>, <<69821, 69821>>, <<69826, 69826>>,
     <<69837, 69837>>, <<69888, 69890>>, <<69927, 69931>>, <<69933, 69940>>, <<70003, 70003>>,
     <<70016, 70017>>, <<70070, 70078>>, <<70089, 70092>>, <<70095, 70095>>, <<70191, 70193>>,
     <<70196, 70196>>, <<70198, 70199>>, <<70206, 70206>>, <<70209, 70209>>, <<70367, 70367>>,
     <<70371, 70378>>, <<70400, 70401>>, <<70459, 70460>>, <<70464, 70464>>, <<70502, 70508>>,
     <<70512, 70516>>, <<70587, 70592>>, <<70606, 70606>>, <<70608, 70608>>, <<70610, 70610>>,
     <<70625, 70626>>, <<70712, 70719>>, <<70722, 70724>>, <<70726, 70726>>, <<70750, 70750>>,
     <<70835, 70840>>, <<70842, 70842>>, <<70847, 70848>>, <<70850, 70851>>, <<71090, 71093>>,
     <<71100, 71101>>, <<71103, 71104>>, <<71132, 71133>>, <<71219, 71226>>, <<71229, 71229>>,
     <<71231, 71232>>, <<71339, 71339>>, <<71341, 71341>>, <<71344, 71349>>, <<71351, 71351>>,
     <<71453, 71453>>, <<71455, 71455>>, <<71458, 71461>>, <<71463, 71467>>, <<71727, 71735>>,
     <<71737, 71738>>, <<71995, 71996>>, <<71998, 71998>>, <<72003, 72003>>, <<72148, 72151>>,
     <<72154, 72155>>, <<72160, 72160>>, <<72193, 72202>>, <<72243, 72248>>, <<72251, 72254>>,
     <<72263, 72263>>, <<72273, 72278>>, <<72281, 72283>>, <<72330, 72342>>, <<72344, 72345>>,
     <<72544, 72544>>, <<72546, 72548>>, <<72550, 72550>>, <<72752, 72758>>, <<72760, 72765>>,
     <<72767, 72767>>, <<72850, 72871>>, <<72874, 72880>>, <<72882, 72883>>, <<72885, 72886>>,
     <<73009, 73014>>, <<73018, 73018>>, <<73020, 73021>>, <<73023, 73029>>, <<73031, 73031>>,
     <<73104, 73105>>, <<73109, 73109>>, <<73111, 73111>>, <<73177, 73177>>, <<73459, 73460>>,
     <<73472, 73473>>, <<73526, 73530>>, <<73536, 73536>>, <<73538, 73538>>, <<73562, 73562>>,
     <<78896, 78912>>, <<78919, 78933>>, <<90398, 90409>>, <<90413, 90415>>, <<92912, 92916>>,
     <<92976, 92982>>, <<92992, 92995>>, <<93504, 93506>>, <<93547, 93548>>, <<94031, 94031>>,
     <<94095, 94111>>, <<94176, 94177>>, <<94179, 94180>>, <<94194, 94195>>, <<110576, 110579>>,
     <<110581, 110587>>, <<110589, 110590>>, <<113821, 113822>>, <<113824, 113827>>,
     <<118528, 118573>>, <<118576, 118598>>, <<119143, 119145>>, <<119155, 119170>>,
     <<119173, 119179>>, <<119210, 119213>>, <<119362, 119364>>, <<121344, 121398>>,
     <<121403, 121452>>, <<121461, 121461>>, <<121476, 121476>>, <<121499, 121503>>,
     <<121505, 121519>>, <<122880, 122886>>, <<122888, 122904>>, <<122907, 122913>>,
     <<122915, 122916>>, <<122918, 122922>>, <<122928, 122989>>, <<123023, 123023>>,
     <<123184, 123197>>, <<123566, 123566>>, <<123628, 123631>>, <<124139, 124143>>,
     <<124398, 124399>>, <<124643, 124643>>, <<124646, 124646>>, <<124654, 124655>>,
     <<124661, 124661>>, <<124671, 124671>>, <<125136, 125142>>, <<125252, 125259>>,
     <<127995, 127999>>, <<917505, 917505>>, <<917536, 917631>>, <<917760, 917999>> >>

\* The lowercase of one code point, out of context: a sequence of code points.
\* Capital I with dot above is the one code point that lowers to two.
lowerChar(c) ==
  IF c = 304 THEN <<105, 775>>
  ELSE IF \E k \in 1..Len(LowerCaseRanges) :
            LET r == LowerCaseRanges[k]
            IN  r[1] <= c /\ c <= r[2] /\ (c - r[1]) % r[3] = 0
  THEN LET k == CHOOSE k \in 1..Len(LowerCaseRanges) :
                  LET r == LowerCaseRanges[k]
                  IN  r[1] <= c /\ c <= r[2] /\ (c - r[1]) % r[3] = 0
       IN  <<c + LowerCaseRanges[k][4]>>
  ELSE <<c>>

\* String.prototype.toLowerCase: every code point is lowered by lowerChar,
\* except a capital sigma (931) in final position, which becomes the final
\* small sigma (962): the nearest code point before it that is not
\* case-ignorable is cased, and the nearest one after it that is not
\* case-ignorable, if there is one, is not cased.
toLowerCase(s) ==
  LET cps == codePoints(s)
      inRanges(c, ranges) ==
        \E k \in 1..Len(ranges) : ranges[k][1] <= c /\ c <= ranges[k][2]
      casedAt(j) ==
        /\ ~inRanges(cps[j], CaseIgnorableRanges)
        /\ inRanges(cps[j], CasedRanges)
      ignorableBetween(a, b) ==
        \A k \in (a + 1)..(b - 1) : inRanges(cps[k], CaseIgnorableRanges)
      isFinalSigma(i) ==
        /\ \E j \in 1..(i - 1) : casedAt(j) /\ ignorableBetween(j, i)
        /\ ~\E j \in (i + 1)..Len(cps) : casedAt(j) /\ ignorableBetween(i, j)
      RECURSIVE lowered(_)
      lowered(i) ==
        IF i > Len(cps) THEN <<>>
        ELSE (IF cps[i] = 931 /\ isFinalSigma(i) THEN <<962>> ELSE lowerChar(cps[i]))
               \o lowered(i + 1)
  IN  codeUnits(lowered(1))

\* String.prototype.includes
includes(s, k) ==
  \E i \in 1..(Len(s) - Len(k) + 1) : SubSeq(s, i, i + Len(k) - 1) = k

quickActions ==
  << [label |-> "Tax Optimization",
      query |-> utf16("How can I optimize my taxes for this financial year?")],
     [label |-> "Investment Advice",
      query |-> utf16("What are the best investment options for my risk profile?")],
     [label |-> "Budget Analysis",
      query |-> utf16("Analyze my spending patterns and suggest improvements")],
     [label |-> "Insurance Review",
      query |-> utf16("Review my insurance coverage and suggest improvements")] >>

\* The five canned answers.
aiResponses ==
  [tax |->
     utf16("Based on your current income of ₹12,00,000, I recommend maximizing your 80C deductions by investing ₹1,50,000 in ELSS funds. You can save approximately ₹46,800 in taxes by switching to the new tax regime and claiming HRA exemption. Consider investing in NPS for additional ₹50,000 deduction under 80CCD(1B)."),
   investment |->
     utf16("Given your moderate risk profile and 10-year investment horizon, I suggest a balanced portfolio: 60% equity (₹3,60,000 in diversified mutual funds), 30% debt (₹1,80,000 in corporate bonds), and 10% gold (₹60,000 in gold ETFs). This allocation can potentially generate 12-14% annual returns."),
   budget |->
     utf16("Your spending analysis shows 35% on essentials, 25% on lifestyle, and 40% savings - excellent! However, I notice ₹8,000 monthly on dining out. Reducing this by 30% could save ₹28,800 annually. Consider automating investments to maintain your savings discipline."),
   insurance |->
     utf16("Your current life insurance coverage of ₹50,00,000 is adequate, but I recommend increasing health insurance from ₹5,00,000 to ₹10,00,000 given rising medical costs. Consider a top-up plan for cost-effective additional coverage. Your motor insurance is due for renewal in 2 months."),
   default |->
     utf16("I'm your AI financial co-pilot! I can help you with tax optimization, investment planning, budget analysis, insurance reviews, and personalized financial advice. What would you like to explore today?")]

getAIResponse(query) ==
  LET lowerQuery == toLowerCase(query)
  IN  IF includes(lowerQuery, utf16("tax")) \/ includes(lowerQuery, utf16("deduction"))
           \/ includes(lowerQuery, utf16("80c"))
      THEN aiResponses.tax
      ELSE IF includes(lowerQuery, utf16("invest")) \/ includes(lowerQuery, utf16("mutual fund"))
                \/ includes(lowerQuery, utf16("portfolio"))
      THEN aiResponses.investment
      ELSE IF includes(lowerQuery, utf16("budget")) \/ includes(lowerQuery, utf16("spending"))
                \/ includes(lowerQuery, utf16("expense"))
      THEN aiResponses.budget
      ELSE IF includes(lowerQuery, utf16("insurance")) \/ includes(lowerQuery, utf16("coverage"))
                \/ includes(lowerQuery, utf16("health"))
      THEN aiResponses.insurance
      ELSE aiResponses.default

\* A Message without its id and timestamp (both read from the clock and used
\* only as React key and time label); a user message has no suggestions.
userMessage(message) ==
  [type |-> "user", content |-> message, suggestions |-> <<>>]

aiResponse(message) ==
  [type |-> "ai", content |-> getAIResponse(message),
   suggestions |-> <<utf16("Tell me more"), utf16("Show calculations"),
                     utf16("Alternative options"), utf16("Next steps")>>]

\* The message the chat opens with.
InitialMessages ==
  << [type |-> "ai",
      content |->
        utf16("Hello! I'm your AI financial co-pilot. I'm here to help you optimize your taxes, plan investments, analyze spending, and achieve your financial goals. How can I assist you today?"),
      suggestions |-> <<utf16("Tax Optimization"), utf16("Investment Planning"),
                        utf16("Budget Review"), utf16("Insurance Analysis")>>] >>

ChatInit ==
  /\ messages = InitialMessages
  /\ inputValue = <<>>
  /\ isTyping = FALSE
  /\ pendingResponses = <<>>

\* The chat is followed until it holds MaxMessages messages.
MaxMessages == 5

\* Texts typed or pasted into the input: nothing, blanks, a no-break space with
\* a form feed, two questions.
TypedTexts ==
  {<<>>, utf16("  "), <<160, 12>>, utf16("Is my 80C limit used up?"), utf16("hello ")}

\* Room for one more message and its answer.
HasRoom == Len(messages) + Len(pendingResponses) + 2 <= MaxMessages

\* handleSendMessage up to its await: a blank message is dropped; otherwise the
\* user message is appended, the input cleared, isTyping set and the 1500 ms
\* timer started.  The rest of the function is ResponseTimer.
handleSendMessage(message) ==
  IF trim(message) = <<>>
  THEN UNCHANGED chatVars
  ELSE /\ messages' = Append(messages, userMessage(message))
       /\ inputValue' = <<>>
       /\ isTyping' = TRUE
       /\ pendingResponses' = Append(pendingResponses, message)

\* onChange of the input
SetInputValue ==
  /\ \E text \in TypedTexts : inputValue' = text
  /\ UNCHANGED <<messages, isTyping, pendingResponses, outsideChat>>

\* The send button, disabled while the input is blank or isTyping.
ClickSend ==
  /\ ~(trim(inputValue) = <<>> \/ isTyping)
  /\ HasRoom
  /\ handleSendMessage(inputValue)
  /\ UNCHANGED outsideChat

\* onKeyPress of the input: Enter without Shift sends, whatever isTyping is.
handleKeyPress ==
  /\ HasRoom
  /\ \E key \in {"Enter", "a"}, shiftKey \in BOOLEAN :
       IF key = "Enter" /\ ~shiftKey
       THEN handleSendMessage(inputValue)
       ELSE UNCHANGED chatVars
  /\ UNCHANGED outsideChat

\* A quick action button: never disabled.
handleQuickAction ==
  /\ HasRoom
  /\ \E a \in 1..Len(quickActions) : handleSendMessage(quickActions[a].query)
  /\ UNCHANGED outsideChat

\* A suggestion button under a message: never disabled.
ClickSuggestion ==
  /\ HasRoom
  /\ \E m \in 1..Len(messages) :
       \E s \in 1..Len(messages[m].suggestions) :
         handleSendMessage(messages[m].suggestions[s])
  /\ UNCHANGED outsideChat

\* The oldest 1500 ms timer fires (equal delays fire in the order they were
\* set) and its handleSendMessage call resumes: the answer is appended and
\* isTyping cleared.
ResponseTimer ==
  /\ pendingResponses # <<>>
  /\ messages' = Append(messages, aiResponse(Head(pendingResponses)))
  /\ isTyping' = FALSE
  /\ pendingResponses' = Tail(pendingResponses)
  /\ UNCHANGED <<inputValue, outsideChat>>

ChatNext ==
  \/ SetInputValue
  \/ ClickSend
  \/ handleKeyPress
  \/ handleQuickAction
  \/ ClickSuggestion
  \/ ResponseTimer

(* ----------------------------- OnboardingPage -------------------------- *)

steps ==
  << [id |-> 1, title |-> "Personal Information"],
     [id |-> 2, title |-> "Financial Profile"],
     [id |-> 3, title |-> "Goals & Objectives"],
     [id |-> 4, title |-> "Preferences"] >>

initialData ==
  [personalInfo |->
     [firstName |-> "", lastName |-> "", dateOfBirth |-> "", phone |-> "",
      city |-> "", occupation |-> ""],
   financialInfo |->
     [annualIncome |-> "", currentSavings |-> "", monthlyExpenses |-> "",
      hasInvestments |-> FALSE, riskTolerance |-> "", investmentExperience |-> ""],
   goals |->
     [primaryGoals |-> <<>>, timeHorizon |-> "", targetAmount |-> "",
      specificGoals |-> ""],
   preferences |->
     [preferredLanguage |-> "", communicationPreference |-> <<>>,
      advisoryServices |-> FALSE, taxPlanningHelp |-> FALSE]]

OnboardingInit ==
  /\ currentStep = 1
  /\ data = initialData
  /\ isLoading = FALSE
  /\ pendingCompletions = 0
  /\ location = "/onboarding"

\* A string in a condition: the empty string is false, any other true.
Truthy(s) == s # ""

\* Array.prototype.includes
arrayIncludes(arr, value) == \E i \in 1..Len(arr) : arr[i] = value

RECURSIVE filterOut(_, _)
\* arr.filter((item) => item !== value)
filterOut(arr, value) ==
  IF arr = <<>> THEN <<>>
  ELSE IF Head(arr) = value THEN filterOut(Tail(arr), value)
  ELSE <<Head(arr)>> \o filterOut(Tail(arr), value)

isStepValid ==
  CASE currentStep = 1 ->
         /\ Truthy(data.personalInfo.firstName)
         /\ Truthy(data.personalInfo.lastName)
         /\ Truthy(data.personalInfo.dateOfBirth)
         /\ Truthy(data.personalInfo.phone)
         /\ Truthy(data.personalInfo.city)
         /\ Truthy(data.personalInfo.occupation)
    [] currentStep = 2 ->
         /\ Truthy(data.financialInfo.annualIncome)
         /\ Truthy(data.financialInfo.currentSavings)
         /\ Truthy(data.financialInfo.monthlyExpenses)
         /\ Truthy(data.financialInfo.riskTolerance)
         /\ Truthy(data.financialInfo.investmentExperience)
    [] currentStep = 3 ->
         Len(data.goals.primaryGoals) > 0 /\ Truthy(data.goals.timeHorizon)
    [] currentStep = 4 ->
         /\ Truthy(data.preferences.preferredLanguage)
         /\ Len(data.preferences.communicationPreference) > 0
    [] OTHER -> FALSE

\* The inputs, selects, radio groups and the textarea of the four forms, each
\* with the values entered here: a text input can be filled and emptied, a
\* select or radio group takes one of its options.
FieldBindings ==
  { [step |-> 1, section |-> "personalInfo", field |-> "firstName", values |-> {"", "Asha"}],
    [step |-> 1, section |-> "personalInfo", field |-> "lastName", values |-> {"", "Rao"}],
    [step |-> 1, section |-> "personalInfo", field |-> "dateOfBirth",
     values |-> {"", "1990-01-31"}],
    [step |-> 1, section |-> "personalInfo", field |-> "phone", values |-> {"", "9876543210"}],
    [step |-> 1, section |-> "personalInfo", field |-> "city", values |-> {"", "Pune"}],
    [step |-> 1, section |-> "personalInfo", field |-> "occupation",
     values |-> {"Software Engineer"}],
    [step |-> 2, section |-> "financialInfo", field |-> "annualIncome",
     values |-> {"600000-1000000"}],
    [step |-> 2, section |-> "financialInfo", field |-> "currentSavings",
     values |-> {"100000-500000"}],
    [step |-> 2, section |-> "financialInfo", field |-> "monthlyExpenses",
     values |-> {"25000-50000"}],
    [step |-> 2, section |-> "financialInfo", field |-> "riskTolerance",
     values |-> {"moderate"}],
    [step |-> 2, section |-> "financialInfo", field |-> "investmentExperience",
     values |-> {"beginner"}],
    [step |-> 3, section |-> "goals", field |-> "timeHorizon", values |-> {"medium"}],
    [step |-> 3, section |-> "goals", field |-> "targetAmount", values |-> {"", "5000000"}],
    [step |-> 3, section |-> "goals", field |-> "specificGoals",
     values |-> {"", "Retire early"}],
    [step |-> 4, section |-> "preferences", field |-> "preferredLanguage",
     values |-> {"english"}] }

\* The single checkboxes, bound to handleInputChange with a boolean.
CheckboxBindings ==
  { [step |-> 2, section |-> "financialInfo", field |-> "hasInvestments"],
    [step |-> 4, section |-> "preferences", field |-> "advisoryServices"],
    [step |-> 4, section |-> "preferences", field |-> "taxPlanningHelp"] }

\* The checkbox groups, each with the boxes ticked and unticked here.
ArrayBindings ==
  { [step |-> 3, section |-> "goals", field |-> "primaryGoals", values |-> {"Tax Saving"}],
    [step |-> 4, section |-> "preferences", field |-> "communicationPreference",
     values |-> {"Email"}] }

handleInputChange(section, field, value) ==
  data' = [data EXCEPT ![section][field] = value]

handleArrayChange(section, field, value, checked) ==
  LET currentArray == data[section][field]
      newArray     == IF checked THEN Append(currentArray, value)
                      ELSE filterOut(currentArray, value)
  IN  data' = [data EXCEPT ![section][field] = newArray]

\* nextStep without its "if (currentStep < steps.length)".
nextStep_unguarded ==
  /\ currentStep' = currentStep + 1
  /\ UNCHANGED <<data, isLoading, pendingCompletions, location, outsideOnboarding>>

nextStep ==
  /\ currentStep' = IF currentStep < Len(steps) THEN currentStep + 1 ELSE currentStep
  /\ UNCHANGED <<data, isLoading, pendingCompletions, location, outsideOnboarding>>

prevStep ==
  /\ currentStep' = IF currentStep > 1 THEN currentStep - 1 ELSE currentStep
  /\ UNCHANGED <<data, isLoading, pendingCompletions, location, outsideOnboarding>>

\* handleComplete up to its await: isLoading is set and the 2000 ms timer
\* started.  The rest of the function is CompletionTimer.
handleComplete ==
  /\ isLoading' = TRUE
  /\ pendingCompletions' = pendingCompletions + 1
  /\ UNCHANGED <<currentStep, data, location, outsideOnboarding>>

\* A 2000 ms timer fires and its handleComplete call resumes: isLoading is
\* cleared and the browser sent to the dashboard.  The page stays, and takes
\* events, until the browser has loaded the new one.
CompletionTimer ==
  /\ pendingCompletions > 0
  /\ pendingCompletions' = pendingCompletions - 1
  /\ isLoading' = FALSE
  /\ location' = "/dashboard"
  /\ UNCHANGED <<currentStep, data, outsideOnboarding>>

\* A control of the form of the current step is edited, or one of its single
\* checkboxes clicked: onCheckedChange is handed the opposite of what the box
\* shows.
EditField ==
  /\ \/ \E b \in FieldBindings :
          /\ currentStep = b.step
          /\ \E value \in b.values : handleInputChange(b.section, b.field, value)
     \/ \E b \in CheckboxBindings :
          /\ currentStep = b.step
          /\ handleInputChange(b.section, b.field, ~data[b.section][b.field])
  /\ UNCHANGED <<currentStep, isLoading, pendingCompletions, location, outsideOnboarding>>

\* A checkbox of the current step is clicked: onCheckedChange is handed the
\* opposite of what the box shows.
ToggleCheckbox ==
  /\ \E b \in ArrayBindings :
       /\ currentStep = b.step
       /\ \E value \in b.values :
            handleArrayChange(b.section, b.field, value,
                              ~arrayIncludes(data[b.section][b.field], value))
  /\ UNCHANGED <<currentStep, isLoading, pendingCompletions, location, outsideOnboarding>>

\* The Previous button, disabled on step 1.
ClickPrevious ==
  /\ currentStep # 1
  /\ prevStep

\* The Next button: rendered before the last step, disabled while the step is
\* not valid.
ClickNext ==
  /\ currentStep < Len(steps)
  /\ isStepValid
  /\ nextStep

\* ClickComplete with the button disabled only while the step is not valid.
ClickComplete_ignoresLoading ==
  /\ ~(currentStep < Len(steps))
  /\ isStepValid
  /\ handleComplete

\* The Complete Setup button: rendered on the last step, disabled while the
\* step is not valid or isLoading.
ClickComplete ==
  /\ ~(currentStep < Len(steps))
  /\ ~(~isStepValid \/ isLoading)
  /\ handleComplete

OnboardingNext ==
  \/ EditField
  \/ ToggleCheckbox
  \/ ClickPrevious
  \/ ClickNext
  \/ ClickComplete
  \/ CompletionTimer

\* The handlers called in any order, without the buttons' disabled and
\* rendering conditions; handleInputChange is called for one text control of
\* each section and for every single checkbox.
CallInputChange ==
  /\ \/ \E b \in FieldBindings :
          /\ b.field \in {"firstName", "annualIncome", "targetAmount", "preferredLanguage"}
          /\ \E value \in b.values : handleInputChange(b.section, b.field, value)
     \/ \E b \in CheckboxBindings :
          \E checked \in BOOLEAN : handleInputChange(b.section, b.field, checked)
  /\ UNCHANGED <<currentStep, isLoading, pendingCompletions, location, outsideOnboarding>>

CallArrayChange ==
  /\ \E b \in ArrayBindings :
       \E value \in b.values :
         handleArrayChange(b.section, b.field, value,
                           ~arrayIncludes(data[b.section][b.field], value))
  /\ UNCHANGED <<currentStep, isLoading, pendingCompletions, location, outsideOnboarding>>

OnboardingCallsNext ==
  \/ CallInputChange
  \/ CallArrayChange
  \/ nextStep
  \/ prevStep

(* --------------------------- NotificationsPage ------------------------- *)

\* The five mock notifications, without the texts and the timestamp they are
\* shown with.
mockNotifications ==
  << [id |-> "1", type |-> "tax",        isRead |-> FALSE, priority |-> "high"],
     [id |-> "2", type |-> "investment", isRead |-> FALSE, priority |-> "medium"],
     [id |-> "3", type |-> "credit",     isRead |-> TRUE,  priority |-> "low"],
     [id |-> "4", type |-> "budget",     isRead |-> FALSE, priority |-> "medium"],
     [id |-> "5", type |-> "insurance",  isRead |-> TRUE,  priority |-> "high"] >>

NotificationsInit == notifications = mockNotifications

\* The ids a handler is called with: those of the mock notifications, whether
\* still listed or not.
NotificationIds == {mockNotifications[i].id : i \in 1..Len(mockNotifications)}

\* notifications.filter((n) => !n.isRead).length, of any list
unreadCountOf(list) == Cardinality({i \in 1..Len(list) : ~list[i].isRead})

unreadCount == unreadCountOf(notifications)

\* prev.filter((n) => n.id !== id)
RECURSIVE filterNotId(_, _)
filterNotId(list, id) ==
  IF list = <<>> THEN <<>>
  ELSE IF Head(list).id # id THEN <<Head(list)>> \o filterNotId(Tail(list), id)
  ELSE filterNotId(Tail(list), id)

\* markAsRead flipping isRead instead of setting it.
markAsRead_toggle(id) ==
  /\ notifications' =
       [i \in 1..Len(notifications) |->
          IF notifications[i].id = id
          THEN [notifications[i] EXCEPT !.isRead = ~notifications[i].isRead]
          ELSE notifications[i]]
  /\ UNCHANGED outsideNotifications

markAsRead(id) ==
  /\ notifications' =
       [i \in 1..Len(notifications) |->
          IF notifications[i].id = id
          THEN [notifications[i] EXCEPT !.isRead = TRUE]
          ELSE notifications[i]]
  /\ UNCHANGED outsideNotifications

markAllAsRead ==
  /\ notifications' =
       [i \in 1..Len(notifications) |-> [notifications[i] EXCEPT !.isRead = TRUE]]
  /\ UNCHANGED outsideNotifications

deleteNotification(id) ==
  /\ notifications' = filterNotId(notifications, id)
  /\ UNCHANGED outsideNotifications

NotificationsNext ==
  \/ \E id \in NotificationIds : markAsRead(id)
  \/ markAllAsRead
  \/ \E id \in NotificationIds : deleteNotification(id)

(* ------------------------ CibilScenarioSimulator ----------------------- *)

\* useState(785); setCurrentScore is never called.
currentScore == 785

\* The values of the SelectItems.
SelectItems == {"pay-down-debt", "increase-limit", "new-loan", "close-card", "missed-payment"}

\* Positions of the three sliders: each set holds its slider's min and max and
\* steps between them (10000..200000 by 10000, 100000..500000 by 25000,
\* 100000..2000000 by 100000).
PaymentAmounts == {10000, 50000, 80000, 90000, 200000}

CreditLimits == {100000, 200000, 375000, 400000, 500000}

LoanAmounts == {100000, 500000, 1000000, 1100000, 2000000}

CibilInit ==
  /\ selectedAction = ""
  /\ paymentAmount = <<50000>>
  /\ newCreditLimit = <<200000>>
  /\ loanAmount = <<500000>>
  /\ results = <<>>

\* Math.floor(a / b) for a >= 0 and b > 0
MathFloorDiv(a, b) == a \div b

\* The result pushed by each "if (selectedAction === ...)" of simulateScenario;
\* the action text keeps the amount as a number.
payDownDebtResult ==
  LET impact == MathMin(25, MathFloorDiv(paymentAmount[1], 10000) * 3)
  IN  [action |-> <<"Pay down Rs", paymentAmount[1], "in credit card debt">>,
       currentScore |-> currentScore, projectedScore |-> currentScore + impact,
       impact |-> impact, timeframe |-> "1-2 months", confidence |-> "high"]

increaseLimitResult ==
  LET impact == MathMin(15, MathFloorDiv(newCreditLimit[1], 50000) * 2)
  IN  [action |-> <<"Increase credit limit to Rs", newCreditLimit[1]>>,
       currentScore |-> currentScore, projectedScore |-> currentScore + impact,
       impact |-> impact, timeframe |-> "2-3 months", confidence |-> "medium"]

newLoanResult ==
  LET impact == IF loanAmount[1] > 1000000 THEN -10 ELSE -5
  IN  [action |-> <<"Take new loan of Rs", loanAmount[1]>>,
       currentScore |-> currentScore, projectedScore |-> currentScore + impact,
       impact |-> impact, timeframe |-> "1-3 months", confidence |-> "high"]

closeCardResult ==
  [action |-> <<"Close oldest credit card">>,
   currentScore |-> currentScore, projectedScore |-> currentScore - 8,
   impact |-> -8, timeframe |-> "2-4 months", confidence |-> "medium"]

\* The local array "scenarios" when simulateScenario reaches setResults.
scenarios ==
  (IF selectedAction = "pay-down-debt" THEN <<payDownDebtResult>> ELSE <<>>)
    \o (IF selectedAction = "increase-limit" THEN <<increaseLimitResult>> ELSE <<>>)
    \o (IF selectedAction = "new-loan" THEN <<newLoanResult>> ELSE <<>>)
    \o (IF selectedAction = "close-card" THEN <<closeCardResult>> ELSE <<>>)

\* onValueChange of the Select
setSelectedAction ==
  /\ \E value \in SelectItems : selectedAction' = value
  /\ UNCHANGED <<paymentAmount, newCreditLimit, loanAmount, results, outsideCibil>>

\* The three sliders, each rendered only for its action.
setPaymentAmount ==
  /\ selectedAction = "pay-down-debt"
  /\ \E value \in PaymentAmounts : paymentAmount' = <<value>>
  /\ UNCHANGED <<selectedAction, newCreditLimit, loanAmount, results, outsideCibil>>

setNewCreditLimit ==
  /\ selectedAction = "increase-limit"
  /\ \E value \in CreditLimits : newCreditLimit' = <<value>>
  /\ UNCHANGED <<selectedAction, paymentAmount, loanAmount, results, outsideCibil>>

setLoanAmount ==
  /\ selectedAction = "new-loan"
  /\ \E value \in LoanAmounts : loanAmount' = <<value>>
  /\ UNCHANGED <<selectedAction, paymentAmount, newCreditLimit, results, outsideCibil>>

\* The Simulate Impact button (disabled while no action is selected).
simulateScenario ==
  /\ selectedAction # ""
  /\ results' = scenarios
  /\ UNCHANGED <<selectedAction, paymentAmount, newCreditLimit, loanAmount, outsideCibil>>

\* The Reset button
resetSimulator ==
  /\ selectedAction' = ""
  /\ paymentAmount' = <<50000>>
  /\ newCreditLimit' = <<200000>>
  /\ loanAmount' = <<500000>>
  /\ results' = <<>>
  /\ UNCHANGED outsideCibil

CibilNext ==
  \/ setSelectedAction
  \/ setPaymentAmount
  \/ setNewCreditLimit
  \/ setLoanAmount
  \/ simulateScenario
  \/ resetSimulator

(* --------------------------------- api.ts ------------------------------ *)

\* null, for the handler and for the token
null == "null"

\* What cookieUtils.getToken() hands back: nothing, or a token.
CookieTokens == {"", "eyJhbGciOi.token"}

\* token || null
getAuthToken(cookie) == IF Truthy(cookie) THEN cookie ELSE null

\* The responses fetch resolves with: the status and the "error" member of the
\* body ("" when the body has none).
Responses ==
  { [status |-> 200, error |-> ""],
    [status |-> 401, error |-> ""],
    [status |-> 401, error |-> "Invalid or expired token"],
    [status |-> 500, error |-> ""],
    [status |-> 500, error |-> "Database unavailable"] }

\* Response.ok
ok(response) == response.status \in 200..299

\* The methods of authApi: they read no token and test response.ok themselves.
authApi ==
  { [api |-> "authApi", name |-> "register", viaHandler |-> FALSE,
     failed |-> "Registration failed"],
    [api |-> "authApi", name |-> "login", viaHandler |-> FALSE,
     failed |-> "Login failed"] }

\* The methods of onboardingApi and userApi: whether the method hands the response
\* to handleApiResponse or tests response.ok itself, and the message it falls
\* back on in the second case.
ApiMethods ==
  { [api |-> "onboardingApi", name |-> "getOnboardingStatus", viaHandler |-> TRUE,
     failed |-> ""],
    [api |-> "onboardingApi", name |-> "savePersonalInfo", viaHandler |-> TRUE,
     failed |-> ""],
    [api |-> "onboardingApi", name |-> "saveFinancialInfo", viaHandler |-> FALSE,
     failed |-> "Failed to save financial information"],
    [api |-> "onboardingApi", name |-> "saveFinancialGoals", viaHandler |-> FALSE,
     failed |-> "Failed to save financial goals"],
    [api |-> "onboardingApi", name |-> "uploadDocument", viaHandler |-> FALSE,
     failed |-> "Failed to upload document"],
    [api |-> "onboardingApi", name |-> "completeOnboarding", viaHandler |-> FALSE,
     failed |-> "Failed to complete onboarding"],
    [api |-> "userApi", name |-> "getProfile", viaHandler |-> FALSE,
     failed |-> "Failed to fetch profile"],
    [api |-> "userApi", name |-> "updateProfile", viaHandler |-> TRUE, failed |-> ""],
    [api |-> "userApi", name |-> "getDetailedProfile", viaHandler |-> TRUE, failed |-> ""],
    [api |-> "userApi", name |-> "getPreferences", viaHandler |-> FALSE,
     failed |-> "Failed to fetch preferences"],
    [api |-> "userApi", name |-> "updatePreferences", viaHandler |-> FALSE,
     failed |-> "Failed to update preferences"],
    [api |-> "userApi", name |-> "getSecuritySettings", viaHandler |-> FALSE,
     failed |-> "Failed to fetch security settings"],
    [api |-> "userApi", name |-> "updateSecuritySettings", viaHandler |-> FALSE,
     failed |-> "Failed to update security settings"],
    [api |-> "userApi", name |-> "updateIdentityInfo", viaHandler |-> FALSE,
     failed |-> "Failed to update identity information"],
    [api |-> "userApi", name |-> "uploadProfilePhoto", viaHandler |-> FALSE,
     failed |-> "Failed to upload profile photo"],
    [api |-> "userApi", name |-> "removeProfilePhoto", viaHandler |-> FALSE,
     failed |-> "Failed to remove profile photo"],
    [api |-> "userApi", name |-> "updateFinancialInfo", viaHandler |-> FALSE,
     failed |-> "Failed to update financial information"] }

\* error.error || message
errorOr(response, message) == IF Truthy(response.error) THEN response.error ELSE message

\* handleApiResponse: how often it calls the global handler and the message of
\* the Error it throws ("" when it returns the body).
handleApiResponse(response, handler) ==
  IF response.status = 401
  THEN [handlerInvocations |-> IF handler # null THEN 1 ELSE 0,
        error |-> "Authentication failed"]
  ELSE IF ~ok(response)
  THEN [handlerInvocations |-> 0, error |-> errorOr(response, "API request failed")]
  ELSE [handlerInvocations |-> 0, error |-> ""]

\* The "if (!response.ok)" a method writes out itself.
ownResponseCheck(response, message) ==
  IF ~ok(response)
  THEN [handlerInvocations |-> 0, error |-> errorOr(response, message)]
  ELSE [handlerInvocations |-> 0, error |-> ""]

\* A method from "await fetch" to its end: the status received, the calls of
\* the global handler (the one registered when the response arrives) and the
\* message of the Error the call rejects with ("" when it resolves).
apiCall(method, token, response, handler) ==
  LET end == IF method.viaHandler
             THEN handleApiResponse(response, handler)
             ELSE ownResponseCheck(response, method.failed)
  IN  [method |-> method.name, token |-> token, requested |-> TRUE,
       status |-> response.status,
       handlerInvocations |-> end.handlerInvocations, error |-> end.error]

\* No call has ended yet.
NoCall ==
  [method |-> "", token |-> null, requested |-> FALSE, status |-> 0,
   handlerInvocations |-> 0, error |-> ""]

ApiInit ==
  /\ globalAuthErrorHandler = null
  /\ inFlight = EmptyBag
  /\ readingBody = EmptyBag
  /\ lastCall = NoCall

\* The handlers the application registers.
AuthErrorHandlers == {"logout"}

\* Calls followed at a time, from their request to their end.
MaxInFlight == 1

setAuthErrorHandler ==
  /\ \E handler \in AuthErrorHandlers : globalAuthErrorHandler' = handler
  /\ UNCHANGED <<inFlight, readingBody, lastCall, outsideApi>>

\* A method is called and runs up to its "await fetch".  A method of
\* onboardingApi or userApi reads the token first and without one throws before
\* any request; a method of authApi reads none.
CallApi ==
  /\ \E method \in authApi \cup ApiMethods, cookie \in CookieTokens :
       LET token == IF method \in authApi THEN null ELSE getAuthToken(cookie)
       IN  IF method \in ApiMethods /\ token = null
           THEN /\ lastCall' =
                     [method |-> method.name, token |-> token, requested |-> FALSE,
                      status |-> 0, handlerInvocations |-> 0,
                      error |-> "No authentication token found"]
                /\ UNCHANGED <<inFlight, readingBody>>
           ELSE /\ BagCardinality(inFlight) + BagCardinality(readingBody) < MaxInFlight
                /\ inFlight' = inFlight (+) SetToBag({[method |-> method, token |-> token]})
                /\ UNCHANGED <<readingBody, lastCall>>
  /\ UNCHANGED <<globalAuthErrorHandler, outsideApi>>

\* fetch resolves for one of the waiting calls, in any order, and the method
\* runs to its next await: on a 401 handleApiResponse calls the handler and
\* throws, which ends the call; on every other path the call waits for
\* response.json().
FetchResolves ==
  /\ \E call \in BagToSet(inFlight), response \in Responses :
       /\ inFlight' = inFlight (-) SetToBag({call})
       /\ IF call.method.viaHandler /\ response.status = 401
          THEN /\ lastCall' = apiCall(call.method, call.token, response,
                                      globalAuthErrorHandler)
               /\ UNCHANGED readingBody
          ELSE /\ readingBody' = readingBody (+) SetToBag({
                     [method |-> call.method, token |-> call.token,
                      response |-> response]})
               /\ UNCHANGED lastCall
  /\ UNCHANGED <<globalAuthErrorHandler, outsideApi>>

\* response.json() resolves for one of the waiting calls and the call ends
\* (the handler is not read on these paths).
BodyArrives ==
  /\ \E call \in BagToSet(readingBody) :
       /\ readingBody' = readingBody (-) SetToBag({call})
       /\ lastCall' = apiCall(call.method, call.token, call.response,
                              globalAuthErrorHandler)
  /\ UNCHANGED <<globalAuthErrorHandler, inFlight, outsideApi>>

\* The functions of authUtils do nothing and change no state.
ApiNext ==
  \/ setAuthErrorHandler
  \/ CallApi
  \/ FetchResolves
  \/ BodyArrives

(* ---------------------------- specifications --------------------------- *)

\* Every component as it is constructed.
Init ==
  /\ SimulatorInit
  /\ CalcInit
  /\ ChatInit
  /\ OnboardingInit
  /\ NotificationsInit
  /\ CibilInit
  /\ ApiInit

\* RegimeSimulator: the form's events.
Spec == Init /\ [][Next]_vars

\* RegimeSimulator: one render over a scenario the form can hold.
CalcSpecInit ==
  /\ scenario \in CalcScenarios
  /\ CalcInit
  /\ ChatInit
  /\ OnboardingInit
  /\ NotificationsInit
  /\ CibilInit
  /\ ApiInit

CalcSpec == CalcSpecInit /\ [][CalcNext]_vars

ChatSpec == Init /\ [][ChatNext]_vars

OnboardingSpec == Init /\ [][OnboardingNext]_vars

OnboardingCallsSpec == Init /\ [][OnboardingCallsNext]_vars

NotificationsSpec == Init /\ [][NotificationsNext]_vars

CibilSpec == Init /\ [][CibilNext]_vars

ApiSpec == Init /\ [][ApiNext]_vars

(* ------------------------------ properties ----------------------------- *)

ScenarioFields ==
  {"income", "hra", "section80C", "section80D", "homeLoanInterest", "otherDeductions"}

DeductionFields == ScenarioFields \ {"income"}

NonNegative(sc) == \A f \in ScenarioFields : sc[f] >= 0

AnyNegative(sc) == \E f \in ScenarioFields : sc[f] < 0

\* The effective rate 0.
ZeroRate == [kind |-> "finite", num |-> 0, den |-> 1]

\* C1: for the component's initial scenario the Old Regime has taxable income
\* 605000, pre-cess tax 33500, cess 1340 and liability 34840, the New Regime
\* has 1125000, 68750, 2750 and 71500, the Old Regime is recommended and the
\* savings are 36660.
C1_InitialScenarioComparison ==
  scenario = InitialScenario =>
    /\ oldRegimeCalc.taxableIncome = 605000
    /\ taxBeforeCess(scenario.income, scenario, FALSE) = 33500 * 200
    /\ cessOf(taxBeforeCess(scenario.income, scenario, FALSE)) = 1340 * 5000
    /\ oldRegimeCalc.taxLiability = 34840
    /\ newRegimeCalc.taxableIncome = 1125000
    /\ taxBeforeCess(scenario.income, scenario, TRUE) = 68750 * 200
    /\ cessOf(taxBeforeCess(scenario.income, scenario, TRUE)) = 2750 * 5000
    /\ newRegimeCalc.taxLiability = 71500
    /\ recommendedRegime.regime = "Old Tax Regime"
    /\ totalSavings = 36660

\* The initial scenario, with a recommendation rendered for it.
C1_Witness ==
  scenario = InitialScenario /\ recommendedRegime # undefined

\* C2: whenever the two regimes' liabilities are equal, recommendedRegime is
\* still one of the two regimes, never absent.
C2_TieResolvesToARegime ==
  oldRegimeCalc.taxLiability = newRegimeCalc.taxLiability =>
    recommendedRegime.regime \in {"Old Tax Regime", "New Tax Regime"}

\* C3: with income 0 and non-negative deductions, both regimes report taxable
\* income 0, liability 0 and effective rate 0 (not NaN, not Infinity).
C3_ZeroIncomeAllZero ==
  (scenario.income = 0 /\ NonNegative(scenario)) =>
    /\ oldRegimeCalc.taxableIncome = 0
    /\ newRegimeCalc.taxableIncome = 0
    /\ oldRegimeCalc.taxLiability = 0
    /\ newRegimeCalc.taxLiability = 0
    /\ oldRegimeCalc.effectiveRate = ZeroRate
    /\ newRegimeCalc.effectiveRate = ZeroRate

\* C4: a scenario with a negative field is rejected: no comparison result is
\* produced for it.
C4_NegativeInputRejected ==
  AnyNegative(scenario) => regimeData = <<>>

\* C5: for non-negative fields the reported taxable income of each regime is
\* never negative: max(0, income - 75000) for the New Regime, max(0, income -
\* the five allowed amounts) for the Old Regime.
C5_TaxableIncomeFloored ==
  NonNegative(scenario) =>
    /\ newRegimeCalc.taxableIncome = MathMax(0, scenario.income - 75000)
    /\ oldRegimeCalc.taxableIncome >= 0
    /\ 2 * scenario.income <= totalDeductions(oldRegimeCalc.deductions)
         => oldRegimeCalc.taxableIncome = 0

\* C6: a change of the scenario that leaves income as it is (so changes only
\* deduction fields) leaves the whole New Regime result as it is.
C6_NewRegimeInvariance ==
  [][LET next == scenario'
     IN  next.income = scenario.income
           => calculateTax(next.income, next, TRUE) = newRegimeCalc]_vars

\* Deductions far from the initial ones, the New Regime result that of the
\* initial scenario.
C6_Witness ==
  /\ scenario.income = 1200000
  /\ scenario.section80C = 999999
  /\ scenario.hra = 800000
  /\ scenario.homeLoanInterest = 0
  /\ newRegimeCalc.taxLiability = 71500

\* C7: a change of income that leaves the five deduction fields as they are
\* moves each regime's liability in the same direction (or not at all).
C7_Monotonicity ==
  [][LET next == scenario'
     IN  ( /\ \A f \in DeductionFields : next[f] = scenario[f]
           /\ scenario.income <= next.income )
         => /\ oldRegimeCalc.taxLiability
                 <= calculateTax(next.income, next, FALSE).taxLiability
            /\ newRegimeCalc.taxLiability
                 <= calculateTax(next.income, next, TRUE).taxLiability]_vars

\* The HRA cap of half the income binds and the Old Regime liability is positive.
C7_Witness ==
  /\ scenario.hra = 800000
  /\ scenario.income = 1000000
  /\ oldRegimeCalc.deductions.hra = scenario.income
  /\ oldRegimeCalc.taxLiability > 0

\* C8: the regime with the strictly lower liability is the recommended one.
C8_LowerLiabilityRecommended ==
  /\ oldRegimeCalc.taxLiability < newRegimeCalc.taxLiability
       => /\ recommendedRegime.regime = "Old Tax Regime"
          /\ regimeData[1].recommended /\ ~regimeData[2].recommended
  /\ newRegimeCalc.taxLiability < oldRegimeCalc.taxLiability
       => /\ recommendedRegime.regime = "New Tax Regime"
          /\ regimeData[2].recommended /\ ~regimeData[1].recommended

\* The New Regime is the cheaper one and is recommended.
C8_Witness ==
  /\ newRegimeCalc.taxLiability < oldRegimeCalc.taxLiability
  /\ recommendedRegime.regime = "New Tax Regime"

\* C9: potentialSavings is the absolute difference of the two rounded
\* liabilities: non-negative, and 0 exactly when they are equal.
C9_SavingsIsAbsoluteDifference ==
  LET old == oldRegimeCalc.taxLiability
      new == newRegimeCalc.taxLiability
  IN  /\ totalSavings >= 0
      /\ totalSavings = 0 <=> old = new
      /\ old >= new => totalSavings = old - new
      /\ new >= old => totalSavings = new - old

\* The Old Regime is the dearer one and the savings are positive.
C9_Witness ==
  /\ oldRegimeCalc.taxLiability > newRegimeCalc.taxLiability
  /\ totalSavings = oldRegimeCalc.taxLiability - newRegimeCalc.taxLiability
  /\ totalSavings > 0

\* C10: the Old Regime breakdown holds section80C capped at 150000 and
\* section80D capped at 25000, never the raw amount above the cap.
C10_OldRegimeCaps ==
  LET d == oldRegimeCalc.deductions
  IN  /\ scenario.section80C >= 150000 => d.section80C = 150000
      /\ scenario.section80C <  150000 => d.section80C = scenario.section80C
      /\ scenario.section80D >= 25000  => d.section80D = 25000
      /\ scenario.section80D <  25000  => d.section80D = scenario.section80D

\* 999999 entered for both sections and resolved to the caps.
C10_Witness ==
  /\ scenario.section80C = 999999
  /\ scenario.section80D = 999999
  /\ oldRegimeCalc.deductions.section80C = 150000
  /\ oldRegimeCalc.deductions.section80D = 25000

\* C11: the Old Regime breakdown holds hra = min(scenario.hra, income * 0.5)
\* (deductions.hra is in half rupees): the entered amount when it is at most
\* half the income, half the income otherwise.
C11_OldRegimeHraCap ==
  LET h == oldRegimeCalc.deductions.hra
  IN  /\ 2 * scenario.hra <= scenario.income => h = 2 * scenario.hra
      /\ 2 * scenario.hra >  scenario.income => h = scenario.income

\* income = 1000000 and hra = 800000 resolved to 500000 rupees.
C11_Witness ==
  /\ scenario.income = 1000000
  /\ scenario.hra = 800000
  /\ oldRegimeCalc.deductions.hra = 2 * 500000

\* C12: the New Regime breakdown is standardDeduction = 75000 and 0 for
\* section80C, section80D, hra and other, whatever the scenario.
C12_NewRegimeBreakdown ==
  newRegimeCalc.deductions =
    [section80C |-> 0, section80D |-> 0, hra |-> 0,
     standardDeduction |-> 75000, other |-> 0]

\* All five deduction fields entered non-zero, the New Regime breakdown rendered.
C12_Witness ==
  /\ scenario.section80C = 999999
  /\ scenario.section80D = 25000
  /\ scenario.hra = 120000
  /\ scenario.homeLoanInterest = 300000
  /\ regimeData[2].deductions.standardDeduction = 75000

\* C13: the Old Regime breakdown holds standardDeduction = 50000 and
\* other = homeLoanInterest + otherDeductions, with no cap.
C13_OldRegimeStandardAndOther ==
  /\ oldRegimeCalc.deductions.standardDeduction = 50000
  /\ oldRegimeCalc.deductions.other
       = scenario.homeLoanInterest + scenario.otherDeductions

\* A home loan interest above 200000 allowed in full.
C13_Witness ==
  /\ scenario.homeLoanInterest = 300000
  /\ oldRegimeCalc.deductions.other = 350000

\* C14 as claimed: whenever the five Old Regime breakdown amounts sum to at
\* most the income, the reported taxableIncome is exactly income minus that
\* sum (stated for scenarios without a negative field, where it already fails).
C14_TaxableIsIncomeMinusAllowed ==
  LET sum == totalDeductions(oldRegimeCalc.deductions)
  IN  (NonNegative(scenario) /\ sum <= 2 * scenario.income)
        => 2 * oldRegimeCalc.taxableIncome = 2 * scenario.income - sum

\* C14 as amended: whenever the five Old Regime breakdown amounts (the capped
\* ones) sum to at most the income, the reported taxableIncome is income minus
\* that sum rounded to the nearest rupee, a half rupee going up; it is exactly
\* the difference when the difference is a whole number of rupees.
C14_TaxableIsRoundedIncomeMinusAllowed ==
  LET sum  == totalDeductions(oldRegimeCalc.deductions)
      diff == 2 * scenario.income - sum
      t    == oldRegimeCalc.taxableIncome
  IN  sum <= 2 * scenario.income
        => /\ diff <= 2 * t
           /\ 2 * t <= diff + 1

\* Caps binding on section80D and hra, an odd income: 375125 - 312562.5
\* reported as 62563.
C14_Witness ==
  /\ scenario.income = 375125
  /\ scenario.hra = 800000
  /\ scenario.section80D = 999999
  /\ scenario.section80C = 0
  /\ scenario.homeLoanInterest = 0
  /\ totalDeductions(oldRegimeCalc.deductions) = 625125
  /\ oldRegimeCalc.taxableIncome = 62563

\* The schedules as the claim C15 words them: <<lower, upper, rate in percent>>,
\* upper = -1 for the open last slab.
StatedNewSchedule ==
  << <<0, 300000, 0>>, <<300000, 700000, 5>>, <<700000, 1000000, 10>>,
     <<1000000, 1200000, 15>>, <<1200000, 1500000, 20>>, <<1500000, -1, 30>> >>

StatedOldSchedule ==
  << <<0, 250000, 0>>, <<250000, 500000, 5>>, <<500000, 1000000, 20>>,
     <<1000000, -1, 30>> >>

\* max(0, min(T, upper) - lower) * rate for T in half rupees, in 1/200 rupee.
SlabIntegral(T, s) ==
  MathMax(0, (IF s[2] = -1 THEN T ELSE MathMin(T, 2 * s[2])) - 2 * s[1]) * s[3]

\* The sum of SlabIntegral over the first n slabs of a schedule.
RECURSIVE Integrate(_, _, _)
Integrate(T, schedule, n) ==
  IF n = 0 THEN 0
  ELSE Integrate(T, schedule, n - 1) + SlabIntegral(T, schedule[n])

\* C15: for a taxable income T >= 0 the pre-cess tax of each regime is the
\* marginal integration of that regime's stated schedule up to T.
C15_TaxIsScheduleIntegral ==
  LET Told == taxableIncomeOf(scenario.income, scenario, FALSE)
      Tnew == taxableIncomeOf(scenario.income, scenario, TRUE)
  IN  /\ Told >= 0 => taxBeforeCess(scenario.income, scenario, FALSE)
                        = Integrate(Told, StatedOldSchedule, 4)
      /\ Tnew >= 0 => taxBeforeCess(scenario.income, scenario, TRUE)
                        = Integrate(Tnew, StatedNewSchedule, 6)

\* Both taxable incomes in the open last slab of their schedule.
C15_Witness ==
  /\ taxableIncomeOf(scenario.income, scenario, FALSE) > 2 * 1000000
  /\ taxableIncomeOf(scenario.income, scenario, TRUE) > 2 * 1500000
  /\ Len(oldRegimeCalc.taxBreakdown) = 3
  /\ Len(newRegimeCalc.taxBreakdown) = 5

\* The nearest integer to 1.04 * tax (tax in 1/200 rupee, so 13 * tax is the
\* total in 1/2500 rupee), a half going up, is L.
IsRoundOfTaxPlusCess(L, tax) ==
  /\ 2500 * L - 1250 <= 13 * tax
  /\ 13 * tax < 2500 * L + 1250

\* C16: in each regime the cess is 4% of the pre-cess tax (tax / 200 rupees
\* times 0.04 is tax / 5000 rupees) and totalTaxLiability is tax * 1.04 rounded
\* once, from the unrounded slab contributions and the unrounded cess.
C16_CessAndSingleRounding ==
  LET told == taxBeforeCess(scenario.income, scenario, FALSE)
      tnew == taxBeforeCess(scenario.income, scenario, TRUE)
  IN  /\ cessOf(told) = told
      /\ cessOf(tnew) = tnew
      /\ IsRoundOfTaxPlusCess(oldRegimeCalc.taxLiability, told)
      /\ IsRoundOfTaxPlusCess(newRegimeCalc.taxLiability, tnew)

\* New Regime tax 6.25 and cess 0.25: the total 6.5 rounded once is 7, where
\* rounding the tax or the cess first would give 6.
C16_Witness ==
  /\ scenario.income = 375125
  /\ taxBeforeCess(scenario.income, scenario, TRUE) = 1250
  /\ newRegimeCalc.taxLiability = 7

\* C17 as claimed: for income > 0 each regime's effectiveRate is its rounded
\* totalTaxLiability divided by income.
C17_RateIsLiabilityOverIncome ==
  scenario.income > 0 =>
    /\ oldRegimeCalc.effectiveRate.kind = "finite"
    /\ oldRegimeCalc.effectiveRate.num * scenario.income
         = oldRegimeCalc.taxLiability * oldRegimeCalc.effectiveRate.den
    /\ newRegimeCalc.effectiveRate.kind = "finite"
    /\ newRegimeCalc.effectiveRate.num * scenario.income
         = newRegimeCalc.taxLiability * newRegimeCalc.effectiveRate.den

\* The fraction r is 100 * (1.04 * tax) / income, tax in 1/200 rupee: with
\* g = 25 * income / r.den, r.num / r.den = (13 * tax) / (25 * income).
IsPercentOfUnroundedTotal(r, tax, income) ==
  /\ r.kind = "finite"
  /\ r.den > 0
  /\ LET g == (25 * income) \div r.den
     IN  /\ r.den * g = 25 * income
         /\ r.num * g = 13 * tax

\* C17 as amended: for income > 0 each regime's effectiveRate is the unrounded
\* total tax (pre-cess tax plus cess) divided by income, times 100.
C17_RateIsPercentOfUnroundedTotal ==
  scenario.income > 0 =>
    /\ IsPercentOfUnroundedTotal(oldRegimeCalc.effectiveRate,
         taxBeforeCess(scenario.income, scenario, FALSE), scenario.income)
    /\ IsPercentOfUnroundedTotal(newRegimeCalc.effectiveRate,
         taxBeforeCess(scenario.income, scenario, TRUE), scenario.income)

\* New Regime total 6.5 on income 375125, liability 7: the rate is
\* 650 / 375125 = 26 / 15005 percent.
C17_Witness ==
  /\ scenario.income = 375125
  /\ newRegimeCalc.taxLiability = 7
  /\ newRegimeCalc.effectiveRate = [kind |-> "finite", num |-> 26, den |-> 15005]

\* The sum of the tax amounts of the entries of a breakdown.
RECURSIVE SumOfTax(_)
SumOfTax(breakdown) ==
  IF breakdown = <<>> THEN 0
  ELSE Head(breakdown).tax + SumOfTax(Tail(breakdown))

\* C19: in each regime the tax amounts of the breakdown entries sum to the
\* pre-cess tax.
C19_BreakdownSumsToTax ==
  /\ SumOfTax(oldRegimeCalc.taxBreakdown)
       = taxBeforeCess(scenario.income, scenario, FALSE)
  /\ SumOfTax(newRegimeCalc.taxBreakdown)
       = taxBeforeCess(scenario.income, scenario, TRUE)

\* Several entries in each breakdown, the last one a fraction of a rupee.
C19_Witness ==
  /\ Len(newRegimeCalc.taxBreakdown) = 3
  /\ Len(oldRegimeCalc.taxBreakdown) = 3
  /\ newRegimeCalc.taxBreakdown[3].tax % 200 # 0
  /\ oldRegimeCalc.taxBreakdown[3].tax % 200 # 0

\* The slabs of a stated schedule with a non-zero contribution at T.
Contributing(T, schedule) ==
  {i \in 1..Len(schedule) : SlabIntegral(T, schedule[i]) # 0}

\* The slab of a stated schedule a breakdown entry stands for: the one with
\* the entry's rate (the rates of a schedule are all different).
SlabIndex(entry, schedule) ==
  CHOOSE i \in 1..Len(schedule) : schedule[i][3] = entry.rate[1]

\* The breakdown holds exactly the contributing slabs, each with its
\* contribution and its lower bound in the label, in the schedule's order.
IsContributingSlabsInOrder(breakdown, T, schedule) ==
  /\ \A k \in 1..Len(breakdown) :
       /\ \E i \in 1..Len(schedule) : schedule[i][3] = breakdown[k].rate[1]
       /\ breakdown[k].tax
            = SlabIntegral(T, schedule[SlabIndex(breakdown[k], schedule)])
       /\ breakdown[k].slab[2] * 100000
            \in { schedule[SlabIndex(breakdown[k], schedule)][1],
                  schedule[SlabIndex(breakdown[k], schedule)][1] + 50000 }
  /\ {SlabIndex(breakdown[k], schedule) : k \in 1..Len(breakdown)}
       = Contributing(T, schedule)
  /\ \A k, l \in 1..Len(breakdown) :
       k < l => SlabIndex(breakdown[k], schedule) < SlabIndex(breakdown[l], schedule)

\* C20: in each regime the breakdown holds exactly the slabs whose tax
\* contribution is non-zero (no 0% slab, no slab above the taxable income),
\* each once, in the ascending order of the slab table.
C20_BreakdownIsContributingSlabs ==
  /\ IsContributingSlabsInOrder(oldRegimeCalc.taxBreakdown,
       taxableIncomeOf(scenario.income, scenario, FALSE), StatedOldSchedule)
  /\ IsContributingSlabsInOrder(newRegimeCalc.taxBreakdown,
       taxableIncomeOf(scenario.income, scenario, TRUE), StatedNewSchedule)

\* Taxable incomes inside the tables: the 0% slab and the slabs above left out.
C20_Witness ==
  /\ Len(newRegimeCalc.taxBreakdown) = 3
  /\ newRegimeCalc.taxBreakdown[1].rate = <<5, "%">>
  /\ newRegimeCalc.taxBreakdown[3].rate = <<15, "%">>
  /\ Len(oldRegimeCalc.taxBreakdown) = 1

\* C22: the two regimes are never both flagged recommended; one of them is
\* flagged exactly when the savings are positive; the flagged regime has the
\* smaller liability; and the banner, rendered only for a defined
\* recommendedRegime, names the flagged regime with savings above 0.
C22_RecommendationAndBanner ==
  LET old == regimeData[1]
      new == regimeData[2]
  IN  /\ ~(old.recommended /\ new.recommended)
      /\ (old.recommended \/ new.recommended) <=> (totalSavings > 0)
      /\ old.recommended => old.taxLiability < new.taxLiability
      /\ new.recommended => new.taxLiability < old.taxLiability
      /\ recommendedRegime # undefined =>
           /\ totalSavings > 0
           /\ recommendedRegime.recommended
           /\ recommendedRegime \in {old, new}

\* The New Regime flagged and shown in the banner, after the initial scenario
\* (which flags the Old Regime) has been edited.
C22_Witness ==
  /\ regimeData[2].recommended
  /\ recommendedRegime.regime = "New Tax Regime"
  /\ totalSavings > 0
  /\ NonNegative(scenario)

\* C23: a regime whose taxable income after deductions is at most the upper bound
\* of its 0% slab (250000 Old, 300000 New), a negative one included, has
\* liability 0 and an empty slab breakdown; no liability and no slab entry is
\* ever negative.
C23_NoTaxWithinZeroSlab ==
  /\ taxableIncomeOf(scenario.income, scenario, FALSE) <= 2 * 250000
       => oldRegimeCalc.taxLiability = 0 /\ oldRegimeCalc.taxBreakdown = <<>>
  /\ taxableIncomeOf(scenario.income, scenario, TRUE) <= 2 * 300000
       => newRegimeCalc.taxLiability = 0 /\ newRegimeCalc.taxBreakdown = <<>>
  /\ \A c \in {oldRegimeCalc, newRegimeCalc} :
       /\ c.taxLiability >= 0
       /\ \A i \in 1..Len(c.taxBreakdown) : c.taxBreakdown[i].tax >= 0

\* Old Regime deductions above the income, New Regime taxable income inside its
\* 0% slab, all fields non-negative.
C23_Witness ==
  /\ NonNegative(scenario)
  /\ scenario.income > 0
  /\ taxableIncomeOf(scenario.income, scenario, FALSE) < 0
  /\ taxableIncomeOf(scenario.income, scenario, TRUE) > 0
  /\ taxableIncomeOf(scenario.income, scenario, TRUE) <= 2 * 300000

\* The fields other than f are in "next" what they are in the scenario.
OnlyFieldChanges(f, next) == \A g \in ScenarioFields \ {f} : next[g] = scenario[g]

\* C24: each input event changes only the scenario field it is bound to (the income
\* input and the presets: income; the HRA, 80C, 80D and home loan inputs: their
\* field), an entry parseInt cannot read sets the field to 0, and
\* otherDeductions stays 50000.
C24_InputEventsTouchOneField ==
  /\ scenario.otherDeductions = 50000
  /\ [][LET next == scenario'
        IN  /\ (SetIncome \/ PresetIncome) => OnlyFieldChanges("income", next)
            /\ SetHra => OnlyFieldChanges("hra", next)
            /\ SetSection80C => OnlyFieldChanges("section80C", next)
            /\ SetSection80D => OnlyFieldChanges("section80D", next)
            /\ SetHomeLoanInterest => OnlyFieldChanges("homeLoanInterest", next)
            /\ next.otherDeductions = 50000
            /\ \A text \in IncomeTexts :
                 (parseInt(text).nan
                    /\ next = [scenario EXCEPT !.income = parseIntOrZero(text)])
                 => next.income = 0
            /\ \A text \in HraTexts :
                 (parseInt(text).nan
                    /\ next = [scenario EXCEPT !.hra = parseIntOrZero(text)])
                 => next.hra = 0
            /\ \A text \in Section80CTexts :
                 (parseInt(text).nan
                    /\ next = [scenario EXCEPT !.section80C = parseIntOrZero(text)])
                 => next.section80C = 0
            /\ \A text \in Section80DTexts :
                 (parseInt(text).nan
                    /\ next = [scenario EXCEPT !.section80D = parseIntOrZero(text)])
                 => next.section80D = 0
            /\ \A text \in HomeLoanTexts :
                 (parseInt(text).nan
                    /\ next = [scenario EXCEPT !.homeLoanInterest = parseIntOrZero(text)])
                 => next.homeLoanInterest = 0]_vars

\* Every editable field edited (the income from the text 12.5, three deduction
\* fields emptied), otherDeductions as it started.
C24_Witness ==
  /\ scenario.income = 12
  /\ scenario.hra = 0
  /\ scenario.section80C = 0
  /\ scenario.section80D = 0
  /\ scenario.homeLoanInterest = 300000
  /\ scenario.otherDeductions = 50000

\* C21: a calculation changes neither its input nor the other calculation: while
\* the two calls of a render run, in either order or interleaved, the scenario
\* keeps its six field values, a step of one call leaves the locals of the other
\* (its deduction breakdown and slab breakdown among them) as they are, and each
\* call returns what calculateTax gives for the scenario on its own.
C21_CalculationLeavesInputsAlone ==
  /\ [](\A r \in Regimes :
          calc[r].pc = "done"
            => calc[r].result = calculateTax(scenario.income, scenario, IsNewRegime(r)))
  /\ [][/\ \A f \in ScenarioFields : scenario'[f] = scenario[f]
        /\ \A r \in Regimes :
             CalcStep(r) => calc'[OtherRegime(r)] = calc[OtherRegime(r)]]_vars

\* Both calls have returned, the New Regime one first, over a scenario whose
\* requested amounts are above the caps; the two breakdowns differ.
C21_Witness ==
  /\ calc["old"].pc = "done"
  /\ calc["new"].pc = "done"
  /\ scenario.section80C = 999999
  /\ calc["old"].result.deductions.section80C = 150000
  /\ calc["new"].result.deductions.section80C = 0
  /\ calc["old"].result.taxBreakdown # calc["new"].result.taxBreakdown

\* C25 (first part): isTyping is true whenever an AI response is still pending.
C25_TypingWhilePending ==
  pendingResponses # <<>> => isTyping

\* C26: under any sequence of nextStep and prevStep calls currentStep stays within
\* 1..4, nextStep moves it up by one except at step 4, prevStep down by one
\* except at step 1, and neither changes the form data.
C26_StepStaysInRange ==
  /\ [](currentStep \in 1..4)
  /\ [][/\ currentStep' - currentStep \in {-1, 0, 1}
        /\ nextStep =>
             /\ data' = data
             /\ currentStep' = IF currentStep = 4 THEN 4 ELSE currentStep + 1
        /\ prevStep =>
             /\ data' = data
             /\ currentStep' = IF currentStep = 1 THEN 1 ELSE currentStep - 1]_vars

\* Step 4 reached by calls alone, over form data that is partly filled and not
\* valid for the step.
C26_Witness ==
  /\ currentStep = 4
  /\ data.personalInfo.firstName = "Asha"
  /\ data.goals.primaryGoals = <<"Tax Saving">>
  /\ ~isStepValid

\* C27: through the rendered buttons the step goes up only from a step whose
\* required fields are filled, a completion starts only on step 4 while the step
\* is valid and no completion is in progress, and so at most one completion is
\* waiting on its timer, exactly while isLoading is set.
C27_GuardedAdvanceAndSingleCompletion ==
  /\ [](/\ pendingCompletions <= 1
        /\ isLoading <=> (pendingCompletions = 1))
  /\ [][/\ currentStep' > currentStep => isStepValid
        /\ pendingCompletions' > pendingCompletions =>
             /\ currentStep = 4
             /\ isStepValid
             /\ ~isLoading]_vars

\* A completion in progress and the user gone back to step 3, where Next is
\* enabled.
C27_Witness ==
  /\ pendingCompletions = 1
  /\ isLoading
  /\ currentStep = 3
  /\ isStepValid

\* The ids listed.
idsOf(list) == {list[i].id : i \in 1..Len(list)}

\* The notification with the given id in a list that holds it.
byId(list, id) == list[CHOOSE i \in 1..Len(list) : list[i].id = id]

\* C28: under any sequence of markAsRead, markAllAsRead and deleteNotification the
\* listed notifications never grow in number or gain an id, the unread count
\* never goes up, no read notification becomes unread, markAsRead(id) and
\* deleteNotification(id) leave every notification with another id as it is,
\* and after markAllAsRead the unread count is 0.
C28_NotificationsOnlyShrink ==
  [][LET next == notifications'
     IN  /\ Len(next) <= Len(notifications)
         /\ idsOf(next) \subseteq idsOf(notifications)
         /\ unreadCountOf(next) <= unreadCount
         /\ \A id \in idsOf(next) :
              byId(notifications, id).isRead => byId(next, id).isRead
         /\ \A id \in NotificationIds :
              markAsRead(id) =>
                /\ idsOf(next) = idsOf(notifications)
                /\ \A other \in idsOf(notifications) \ {id} :
                     byId(next, other) = byId(notifications, other)
         /\ \A id \in NotificationIds :
              deleteNotification(id) =>
                /\ idsOf(next) = idsOf(notifications) \ {id}
                /\ \A other \in idsOf(next) :
                     byId(next, other) = byId(notifications, other)
         /\ markAllAsRead => unreadCountOf(next) = 0]_vars

\* Two notifications deleted, one of them unread, and the rest read.
C28_Witness ==
  /\ idsOf(notifications) = {"2", "3", "4"}
  /\ unreadCount = 0

\* C29: Simulate Impact with any selectable action gives exactly one result, with
\* projectedScore = currentScore + impact and the impact in 0..25 for
\* pay-down-debt, 0..15 for increase-limit, -5 or -10 for new-loan, -8 for
\* close-card; Reset gives the action, the sliders and the results their
\* initial values.
C29_SimulateGivesOneResult ==
  [][/\ simulateScenario =>
          /\ Len(results') = 1
          /\ results'[1].projectedScore = currentScore + results'[1].impact
          /\ selectedAction = "pay-down-debt" => results'[1].impact \in 0..25
          /\ selectedAction = "increase-limit" => results'[1].impact \in 0..15
          /\ selectedAction = "new-loan" => results'[1].impact \in {-5, -10}
          /\ selectedAction = "close-card" => results'[1].impact = -8
     /\ resetSimulator =>
          /\ selectedAction' = ""
          /\ paymentAmount' = <<50000>>
          /\ newCreditLimit' = <<200000>>
          /\ loanAmount' = <<500000>>
          /\ results' = <<>>]_vars

\* C30: a call of a method of onboardingApi or userApi that finds no token ends
\* with "No authentication token found" without a request; one that is answered
\* 401 while a global handler is registered ends there, having called the
\* handler once, with "Authentication failed".
C30_UnauthorizedReachesHandler ==
  [][LET authenticated == {m.name : m \in ApiMethods}
     IN  /\ CallApi =>
              \/ /\ inFlight' = inFlight
                 /\ lastCall'.method \in authenticated
                 /\ lastCall'.token = null
                 /\ lastCall'.error = "No authentication token found"
                 /\ ~lastCall'.requested
              \/ /\ BagCardinality(inFlight') = BagCardinality(inFlight) + 1
                 /\ \A call \in BagToSet(inFlight') :
                      call.method.name \in authenticated => call.token # null
                 /\ lastCall' = lastCall
         /\ (FetchResolves /\ globalAuthErrorHandler # null) =>
              /\ \A call \in BagToSet(readingBody' (-) readingBody) :
                   call.method.name \in authenticated => call.response.status # 401
              /\ readingBody' = readingBody =>
                   /\ lastCall'.handlerInvocations = 1
                   /\ lastCall'.error = "Authentication failed"]_vars

====
